---- MODULE Spec2Model ----
(***************************************************************************)
(* A model of the validity-check engine of gnomad.assessment               *)
(* (src/gnomad/assessment/validity_checks.py): the generic reporter, the   *)
(* batched check executor, the filter-status summary, the label            *)
(* combination expander and the missingness walker.                        *)
(*                                                                         *)
(* A Hail Table is an immutable value behind a handle: every               *)
(* transformation (select, filter, drop, annotate) allocates a new table   *)
(* in `tables` and returns its handle.  Handle 1 is the caller's dataset.  *)
(* A boolean row expression is modelled by the column holding its value    *)
(* on each row: "T" (true), "F" (false) or "M" (missing).                  *)
(***************************************************************************)
EXTENDS Integers, Sequences, FiniteSets, TLC

VARIABLES
  \* reporter, executor, filter-status summary
  tables, pc, call, ht_field_check_counts, idx, log,
  \* label combinations and the sum-group builder
  label_groups, ccall, expansions, built, cpc,
  \* the missingness walker
  ht_s, s_type, prefix, metric_missingness, missingness_struct,
  missingness_dict, mpc,
  \* unfurl_array_annotations and check_array_struct_missingness
  uht, indexed_array_annotations, ucall, uresult, upc,
  \* compute_and_check_summations
  sht, comparison_groups, sresult, spc,
  \* check_sex_chr_metrics
  xht, xcall, xlog, xpc,
  \* validate_release_t
  vt, vcall, vstage, vlog, vresult, vpc,
  \* the builders of field_check_expr
  rht, rcall, rregs, registry, rlog, rpc,
  \* vcf_field_check
  ft, fcall, flog, fresult, fpc,
  \* check_global_and_row_annot_lengths
  lt, lcall, llog, lpc

checkVars == <<tables, pc, call, ht_field_check_counts, idx, log>>
comboVars == <<label_groups, ccall, expansions, built, cpc>>
missVars ==
  <<ht_s, s_type, prefix, metric_missingness, missingness_struct,
    missingness_dict, mpc>>

unfurlVars == <<uht, indexed_array_annotations, ucall, uresult, upc>>

sumVars == <<sht, comparison_groups, sresult, spc>>

sexVars == <<xht, xcall, xlog, xpc>>

valVars == <<vt, vcall, vstage, vlog, vresult, vpc>>

regVars == <<rht, rcall, rregs, registry, rlog, rpc>>

vcfVars == <<ft, fcall, flog, fresult, fpc>>

lenVars == <<lt, lcall, llog, lpc>>

vars == <<checkVars, comboVars, missVars, unfurlVars, sumVars, sexVars, valVars, regVars, vcfVars, lenVars>>

\* The variables the reporter's and the executor's steps leave alone.
nonCheckVars == <<comboVars, missVars, unfurlVars, sumVars, sexVars, valVars, regVars, vcfVars, lenVars>>

\* The variables the expander's and the builder's steps leave alone.
nonComboVars == <<checkVars, missVars, unfurlVars, sumVars, sexVars, valVars, regVars, vcfVars, lenVars>>

\* The variables the missingness walker's steps leave alone.
nonMissVars == <<checkVars, comboVars, unfurlVars, sumVars, sexVars, valVars, regVars, vcfVars, lenVars>>

\* The variables the unfurling steps leave alone.
nonUnfurlVars == <<checkVars, comboVars, missVars, sumVars, sexVars, valVars, regVars, vcfVars, lenVars>>

\* The variables the steps of compute_and_check_summations leave alone.
nonSumVars == <<checkVars, comboVars, missVars, unfurlVars, sexVars, valVars, regVars, vcfVars, lenVars>>

\* The variables the steps of check_sex_chr_metrics leave alone.
nonSexVars == <<checkVars, comboVars, missVars, unfurlVars, sumVars, valVars, regVars, vcfVars, lenVars>>

\* The variables the steps of validate_release_t leave alone.
nonValVars == <<checkVars, comboVars, missVars, unfurlVars, sumVars, sexVars, regVars, vcfVars, lenVars>>

\* The variables the steps of the builders of field_check_expr leave alone.
nonRegVars == <<checkVars, comboVars, missVars, unfurlVars, sumVars, sexVars, valVars, vcfVars, lenVars>>

\* The variables the steps of vcf_field_check leave alone.
nonVcfVars == <<checkVars, comboVars, missVars, unfurlVars, sumVars, sexVars, valVars, regVars, lenVars>>

\* The variables the steps of check_global_and_row_annot_lengths leave alone.
nonLenVars == <<checkVars, comboVars, missVars, unfurlVars, sumVars, sexVars, valVars, regVars, vcfVars>>

(* ------------------------------ bounds -------------------------------- *)

\* Largest number of rows of a dataset.
MaxRows == 2

(* ------------------------------ domains ------------------------------- *)

\* Python's None, for a name and for a number.
None == "None"
NoneInt == -1

\* Value of a boolean expression on a row: true, false, missing.
Tri == {"T", "F", "M"}

\* The failure predicates (cond_expr) a check may use, as columns.
Exprs == {"p", "q"}

\* The check descriptions (the keys of field_check_expr).
Descs == {"d1", "d2"}

Range(s) == {s[k] : k \in 1..Len(s)}

(* --------------------------- the data engine --------------------------- *)

\* The caller's handle.
CallerHandle == 1

\* A dataset of n rows keyed by idx, one column per predicate.
CheckTable(vals) ==
  [fields |-> {"idx"} \cup Exprs,
   rows   |-> [k \in 1..Len(vals) |->
                [f \in {"idx"} \cup Exprs |->
                   IF f = "idx" THEN k ELSE vals[k][f]]]]

CheckTables ==
  {CheckTable(vals) : vals \in UNION {[1..n -> [Exprs -> Tri]] : n \in 0..MaxRows}}

\* The values of the filters annotation, and the order in which Hail keeps
\* the elements of a set.
FilterNames == <<"AC0", "RF">>

\* A dataset of n rows with the filters annotation and one region flag of
\* info (lcr).
FilterTable(vals) ==
  [fields |-> {"idx", "filters", "lcr"},
   rows   |-> [k \in 1..Len(vals) |->
                [f \in {"idx", "filters", "lcr"} |->
                   IF f = "idx" THEN k ELSE vals[k][f]]]]

FilterTables ==
  {FilterTable(vals) :
     vals \in UNION {[1..n -> [filters : SUBSET Range(FilterNames),
                               lcr : {"T", "F"}]] : n \in 0..MaxRows}}

\* A transformation never changes its input: its result is a new table.
AllocInPlace(tbls, h, tv) == [tbls EXCEPT ![h] = tv]
Alloc(tbls, h, tv) == Append(tbls, tv)

\* Handle of the table the last transformation produced.
Newest(tbls, h, tbls2) == IF Len(tbls2) > Len(tbls) THEN Len(tbls2) ELSE h

\* hl.agg.count_where(expr): the rows on which expr is true (a missing
\* value is not counted).
RECURSIVE CountWhereMissing(_, _)
CountWhereMissing(rows, e) ==
  IF rows = <<>> THEN 0
  ELSE (IF Head(rows)[e] # "F" THEN 1 ELSE 0) + CountWhereMissing(Tail(rows), e)

RECURSIVE CountWhere(_, _)
CountWhere(rows, e) ==
  IF rows = <<>> THEN 0
  ELSE (IF Head(rows)[e] = "T" THEN 1 ELSE 0) + CountWhere(Tail(rows), e)

\* ht.filter(expr): keeps the rows on which expr is true (rows on which it
\* is false or missing are removed).
FilterRows(rows, e) ==
  LET Keep(r) == r[e] = "T" IN SelectSeq(rows, Keep)

\* ht.count()
Count(rows) == Len(rows)

\* ht.select(_fail=cond_expr, **display_fields): the key, the new column
\* and the display fields.
SelectValue(tv, fail_expr, display_fields) ==
  LET fs == {"idx"} \cup display_fields
              \cup (IF fail_expr = None THEN {} ELSE {"_fail"})
  IN [fields |-> fs,
      rows   |-> [k \in 1..Len(tv.rows) |->
                   [f \in fs |-> IF f = "_fail" THEN tv.rows[k][fail_expr]
                                 ELSE tv.rows[k][f]]]]

FilterValue(tv, e) == [fields |-> tv.fields, rows |-> FilterRows(tv.rows, e)]

DropValue(tv, f) ==
  [fields |-> tv.fields \ {f},
   rows   |-> [k \in 1..Len(tv.rows) |->
                [g \in tv.fields \ {f} |-> tv.rows[k][g]]]]

(* ------------------------------ events --------------------------------- *)

\* One engine request, log line or raised error.
\*   op: "aggregate" | "filter_count" | "count" | "found" | "percent"
\*       | "show_fail" | "passed" | "show_all" | "ValueError"
\*       | "ZeroDivisionError"
\*   n, m: the numbers printed; shown: the table displayed.
Ev(op, desc, n, m, shown) ==
  [op |-> op, desc |-> desc, n |-> n, m |-> m, shown |-> shown]

NoTable == [fields |-> {}, rows |-> <<>>]

(* --------------------- generic_field_check (reporter) ------------------ *)

\* The failure count the reporter classifies: a supplied n_fail, else the
\* count of the rows the predicate keeps.
FailCountIgnoringNFail(tv, cond_expr, n_fail) ==
  IF cond_expr # None THEN Count(FilterRows(tv.rows, cond_expr)) ELSE n_fail
FailCount(tv, cond_expr, n_fail) ==
  IF n_fail = NoneInt THEN Count(FilterRows(tv.rows, cond_expr)) ELSE n_fail

\* "n_fail > 0": the check fails.
ClassifyFailAtLeastTwo(n) == n > 1
ClassifyFail(n) == n > 0

\* The guard of the table of failing rows.
ShowFailingRowsNever(cond_expr) == FALSE
ShowFailingRows(cond_expr) == cond_expr # None

\* The guard of the count of the table's rows.
NeedsCountAlways(show_percent_sites, ht_count) == ht_count = NoneInt
NeedsCount(show_percent_sites, ht_count) == show_percent_sites /\ ht_count = NoneInt

\* The guard of the invalid-arguments error.
InvalidArgsEither(n_fail, cond_expr) == n_fail = NoneInt \/ cond_expr = None
InvalidArgs(n_fail, cond_expr) == n_fail = NoneInt /\ cond_expr = None

\* The whole call: the events it emits in order, the tables after it, and
\* whether it raised.
GenericFieldCheck(tbls, ht, check_description, display_fields, cond_expr, verbose, show_percent_sites, n_fail, ht_count) ==
  LET E(op, n, m, shown) == Ev(op, check_description, n, m, shown)
      tv == tbls[ht]
  IN
  IF InvalidArgs(n_fail, cond_expr)
  THEN [events |-> <<E("ValueError", 0, 0, NoTable)>>, tables |-> tbls,
        raised |-> TRUE]
  ELSE
    LET counted == n_fail = NoneInt /\ cond_expr # None
        tbls1 == IF counted THEN Alloc(tbls, ht, FilterValue(tv, cond_expr))
                 ELSE tbls
        n == FailCount(tv, cond_expr, n_fail)
        e1 == IF counted THEN <<E("filter_count", n, 0, NoTable)>> ELSE <<>>
        counting == NeedsCount(show_percent_sites, ht_count)
        c == IF counting THEN Count(tv.rows) ELSE ht_count
        e2 == IF counting THEN <<E("count", c, 0, NoTable)>> ELSE <<>>
    IN
    IF ClassifyFail(n)
    THEN
      LET e3 == <<E("found", n, 0, NoTable)>>
      IN
      IF show_percent_sites /\ c = 0
      THEN [events |-> e1 \o e2 \o e3 \o <<E("ZeroDivisionError", n, c, NoTable)>>,
            tables |-> tbls1, raised |-> TRUE]
      ELSE
        LET e4 == IF show_percent_sites
                  THEN <<E("percent", n, c, NoTable)>> ELSE <<>>
            \* ht = ht.select(_fail=cond_expr, **display_fields)
            tbls2 == Alloc(tbls1, ht, SelectValue(tv, cond_expr, display_fields))
            ht2 == Newest(tbls1, ht, tbls2)
            \* ht.filter(ht._fail).drop("_fail").show()
            tbls3 == Alloc(tbls2, ht2, FilterValue(tbls2[ht2], "_fail"))
            ht3 == Newest(tbls2, ht2, tbls3)
            tbls4 == Alloc(tbls3, ht3, DropValue(tbls3[ht3], "_fail"))
            ht4 == Newest(tbls3, ht3, tbls4)
        IN
        IF ShowFailingRows(cond_expr)
        THEN [events |-> e1 \o e2 \o e3 \o e4
                           \o <<E("show_fail", 0, 0, tbls4[ht4])>>,
              tables |-> tbls4, raised |-> FALSE]
        ELSE [events |-> e1 \o e2 \o e3 \o e4, tables |-> tbls1,
              raised |-> FALSE]
    ELSE
      LET e3 == <<E("passed", n, 0, NoTable)>>
          \* ht.select(**display_fields).show()
          tbls2 == Alloc(tbls1, ht, SelectValue(tv, None, display_fields))
          ht2 == Newest(tbls1, ht, tbls2)
      IN
      IF verbose
      THEN [events |-> e1 \o e2 \o e3 \o <<E("show_all", 0, 0, tbls2[ht2])>>,
            tables |-> tbls2, raised |-> FALSE]
      ELSE [events |-> e1 \o e2 \o e3, tables |-> tbls1, raised |-> FALSE]

(* ---------------- generic_field_check_loop (batched executor) ---------- *)

\* v["agg_func"](v["expr"]): every builder of the module registers
\* hl.agg.count_where.
ApplyAgg(agg_func, rows, expr) ==
  IF agg_func = "count_where" THEN CountWhere(rows, expr) ELSE Count(rows)

\* A field-check entry keyed by its description.
Entry(desc, expr) ==
  [desc |-> desc, expr |-> expr, agg_func |-> "count_where",
   display_fields |-> {expr}]

\* The dictionaries field_check_expr in insertion order: no description
\* is a key twice.
FieldCheckExprs ==
  {<<>>}
  \cup {<<Entry(d, e)>> : d \in Descs, e \in Exprs}
  \cup {fce \in {<<Entry(d1, e1), Entry(d2, e2)>> :
                     d1 \in Descs, d2 \in Descs, e1 \in Exprs, e2 \in Exprs} :
            fce[1].desc # fce[2].desc}

\* Those whose predicates refer to annotations of the table.
FieldCheckExprsOf(tv) ==
  {fce \in FieldCheckExprs : \A k \in 1..Len(fce) : fce[k].expr \in tv.fields}

\* field_check_expr[check_description]
Lookup(field_check_expr, desc) ==
  LET k == CHOOSE j \in 1..Len(field_check_expr) : field_check_expr[j].desc = desc
  IN field_check_expr[k]

\* ht.aggregate(hl.struct(**{k: v["agg_func"](v["expr"]) ...})).items(): one
\* (description, count) pair per entry, in the order of the dictionary.
StructItemsReversed(field_check_expr, rows) ==
  [k \in 1..Len(field_check_expr) |->
     LET v == field_check_expr[Len(field_check_expr) + 1 - k]
     IN [desc |-> v.desc, n |-> ApplyAgg(v.agg_func, rows, v.expr)]]
StructItems(field_check_expr, rows) ==
  [k \in 1..Len(field_check_expr) |->
     LET v == field_check_expr[k]
     IN [desc |-> v.desc, n |-> ApplyAgg(v.agg_func, rows, v.expr)]]

NoCall ==
  [fn |-> "none", field_check_expr |-> <<>>, check_description |-> None,
   display_fields |-> {}, cond_expr |-> None, verbose |-> FALSE,
   show_percent_sites |-> FALSE, n_fail |-> NoneInt, ht_count |-> NoneInt]


(* ----------------------- summarize_variant_filters --------------------- *)

\* hl.agg.counter(expr): the number of rows per value of the column.
Counter(tv, col) ==
  [fields |-> {col, "n"},
   rows   |-> [v \in {tv.rows[k][col] : k \in 1..Len(tv.rows)} |->
                 Cardinality({k \in 1..Len(tv.rows) : tv.rows[k][col] = v})]]

\* t.explode(t.filters): one row per element of the set, in the set's order.
RECURSIVE ExplodeRows(_, _)
ExplodeRows(rows, col) ==
  IF rows = <<>> THEN <<>>
  ELSE LET r == Head(rows)
           Has(x) == x \in r[col]
           elems == SelectSeq(FilterNames, Has)
       IN [k \in 1..Len(elems) |-> [r EXCEPT ![col] = elems[k]]]
          \o ExplodeRows(Tail(rows), col)

ExplodeValue(tv, col) == [fields |-> tv.fields, rows |-> ExplodeRows(tv.rows, col)]

\* hl.any(lambda x: x, [t.info[region] for region in problematic_regions])
AnyRegion(r, problematic_regions) ==
  IF \E k \in 1..Len(problematic_regions) : r[problematic_regions[k]] = "T"
  THEN "T"
  ELSE IF \E k \in 1..Len(problematic_regions) : r[problematic_regions[k]] = "M"
       THEN "M" ELSE "F"

\* t.annotate(is_filtered=hl.len(t.filters) > 0, in_problematic_region=...)
AnnotateValue(tv, problematic_regions) ==
  LET fs == tv.fields \cup {"is_filtered", "in_problematic_region"}
  IN [fields |-> fs,
      rows   |-> [k \in 1..Len(tv.rows) |->
                   [f \in fs |->
                      IF f = "is_filtered"
                      THEN (IF Cardinality(tv.rows[k]["filters"]) > 0
                            THEN "T" ELSE "F")
                      ELSE IF f = "in_problematic_region"
                      THEN AnyRegion(tv.rows[k], problematic_regions)
                      ELSE tv.rows[k][f]]]]

\* t.group_by(**group_exprs).aggregate(**make_filters_expr_dict(...)): per
\* group the row count n and the rows with any filter (the numerator of
\* frac_any_filter); the other fractions are counted the same way.
GroupByValue(tv, keys) ==
  LET Key(r) == [f \in keys |-> r[f]]
  IN [fields |-> keys \cup {"n", "any_filter"},
      rows   |-> [g \in {Key(tv.rows[k]) : k \in 1..Len(tv.rows)} |->
                   [n |-> Cardinality({k \in 1..Len(tv.rows) :
                                         Key(tv.rows[k]) = g}),
                    any_filter |->
                      Cardinality({k \in 1..Len(tv.rows) :
                                     /\ Key(tv.rows[k]) = g
                                     /\ tv.rows[k]["filters"] # {}})]]]

\* _filter_agg_order: group, aggregate, order by n and show.
FilterAggOrder(tbls, t, keys) ==
  LET tbls1 == Alloc(tbls, t, GroupByValue(tbls[t], keys))
      g == Newest(tbls, t, tbls1)
  IN [events |-> <<Ev("show_groups", None, 0, 0, tbls1[g])>>, tables |-> tbls1]

\* The whole call.  t is the caller's handle; the annotated table is bound
\* to the local name only.
SummarizeVariantFilters(tbls, t, problematic_regions, single_filter_count, site_gt_check_expr) ==
  LET tv == tbls[t]
      e1 == <<Ev("aggregate", None, 0, 0, Counter(tv, "filters"))>>
      \* exp_t = t.explode(t.filters)
      tbls1 == IF single_filter_count
               THEN Alloc(tbls, t, ExplodeValue(tv, "filters")) ELSE tbls
      exp_t == Newest(tbls, t, tbls1)
      e2 == IF single_filter_count
            THEN <<Ev("aggregate", None, 0, 0, Counter(tbls1[exp_t], "filters"))>>
            ELSE <<>>
      \* for k, m_expr in site_gt_check_expr.items(): t.filter(m_expr).count()
      tbls2 == IF site_gt_check_expr # None
               THEN Alloc(tbls1, t, FilterValue(tv, site_gt_check_expr))
               ELSE tbls1
      e3 == IF site_gt_check_expr # None
            THEN <<Ev("filter_count", site_gt_check_expr,
                      Count(FilterRows(tv.rows, site_gt_check_expr)), 0, NoTable)>>
            ELSE <<>>
      \* t = t.annotate(...)
      tbls3 == Alloc(tbls2, t, AnnotateValue(tv, problematic_regions))
      t2 == Newest(tbls2, t, tbls3)
      g1 == FilterAggOrder(tbls3, t2, {"is_filtered"})
      keys2 == IF "allele_type" \in tbls3[t2].fields THEN {"allele_type"} ELSE {}
      g2 == IF "allele_type" \in tbls3[t2].fields
            THEN FilterAggOrder(g1.tables, t2, keys2)
            ELSE [events |-> <<>>, tables |-> g1.tables]
      keys3 == IF "in_problematic_region" \in tbls3[t2].fields
               THEN keys2 \cup {"in_problematic_region"} ELSE keys2
      g3 == IF "in_problematic_region" \in tbls3[t2].fields
            THEN FilterAggOrder(g2.tables, t2, keys3)
            ELSE [events |-> <<>>, tables |-> g2.tables]
      keys4 == keys3 \cup {"n_alt_alleles"}
      g4 == IF "n_alt_alleles" \in tbls3[t2].fields
            THEN FilterAggOrder(g3.tables, t2, keys4)
            ELSE [events |-> <<>>, tables |-> g3.tables]
  IN [events |-> e1 \o e2 \o e3 \o g1.events \o g2.events \o g3.events
                   \o g4.events,
      tables |-> g4.tables]


(* --------------- label combinations and the sum-group builder ---------- *)

\* Largest number of populations of a label group.
MaxPops == 2

\* Largest number of direct expansions of one mapping.
MaxExpansions == 2

\* gnomad.utils.vcf.SORT_ORDER, the canonical order of the axes (the axes
\* used by sum_group_callstats).
SORT_ORDER == <<"group", "pop", "sex">>

\* POPS, SEXES and GROUPS of gnomad.resources.grch38.gnomad.
POPS == <<"afr", "amr", "asj", "eas">>
SEXES == <<"XX", "XY">>
GROUPS == <<"adj", "raw">>

\* metrics: List[str] = ["AC", "AN", "nhomalt"]
Metrics == <<"AC", "AN", "nhomalt">>

\* A dictionary is the sequence of its items in insertion order.
Item(name, values) == [name |-> name, values |-> values]
Keys(d) == [k \in 1..Len(d) |-> d[k].name]
HasKey(d, name) == \E k \in 1..Len(d) : d[k].name = name
Get(d, name) == (d[CHOOSE k \in 1..Len(d) : d[k].name = name]).values
Pop(d, name) == LET Other(it) == it.name # name IN SelectSeq(d, Other)
DictSet(d, name, values) ==
  IF HasKey(d, name)
  THEN [k \in 1..Len(d) |-> IF d[k].name = name THEN Item(name, values) ELSE d[k]]
  ELSE Append(d, Item(name, values))

\* list.index(x): the first position of x.
IndexOf(seq, x) ==
  CHOOSE k \in 1..Len(seq) : seq[k] = x /\ \A j \in 1..(k - 1) : seq[j] # x

\* sorted(keys, key=lambda x: sort_order.index(x)): a stable sort.
RECURSIVE SortedKeys(_, _)
SortedKeys(keys, sort_order) ==
  IF keys = <<>> THEN <<>>
  ELSE LET m == CHOOSE k \in 1..Len(keys) :
                  \A j \in 1..Len(keys) :
                    \/ IndexOf(sort_order, keys[k]) < IndexOf(sort_order, keys[j])
                    \/ /\ IndexOf(sort_order, keys[k]) = IndexOf(sort_order, keys[j])
                       /\ k <= j
       IN <<keys[m]>>
            \o SortedKeys([k \in 1..(Len(keys) - 1) |->
                             IF k < m THEN keys[k] ELSE keys[k + 1]], sort_order)

\* delimiter.join(strs)
RECURSIVE Join(_, _)
Join(strs, delimiter) ==
  IF strs = <<>> THEN ""
  ELSE IF Len(strs) = 1 THEN strs[1]
  ELSE strs[1] \o delimiter \o Join(Tail(strs), delimiter)

\* make_label_combos(label_groups, sort_order, label_delimiter): the
\* Cartesian product of one value per axis, the axes taken in the order of
\* sort_order, each combination joined by the delimiter.  The caller's
\* mapping is not changed.
RECURSIVE MakeLabelCombos(_, _, _)
MakeLabelCombos(lg, sort_order, label_delimiter) ==
  IF lg = <<>> THEN <<>>
  ELSE IF Len(lg) = 1 THEN lg[1].values
  ELSE LET anchor_group == SortedKeys(Keys(lg), sort_order)[1]
           anchor_val == Get(lg, anchor_group)
           rest == MakeLabelCombos(Pop(lg, anchor_group), sort_order,
                                   label_delimiter)
       IN [k \in 1..(Len(anchor_val) * Len(rest)) |->
             anchor_val[((k - 1) \div Len(rest)) + 1] \o label_delimiter
               \o rest[((k - 1) % Len(rest)) + 1]]

\* Line 153: the builder expands the mapping it was given, before the
\* group axis is removed, with the default order.
LabelCombosAfterPop(lg, delimiter) ==
  MakeLabelCombos(Pop(lg, "group"), SORT_ORDER, delimiter)
LabelCombosCall(lg, delimiter) == MakeLabelCombos(lg, SORT_ORDER, delimiter)

\* Lines 160-162: the name of the sum group, from the axes left after the
\* group axis is removed.
SumGroupInsertionOrder(lg, sort_order, delimiter) == Join(Keys(lg), delimiter)
SumGroup(lg, sort_order, delimiter) ==
  Join(SortedKeys(Keys(lg), sort_order), delimiter)

\* Lines 173-176: the prefix of the summed fields (subset already carries
\* its trailing delimiter).
FieldPrefix(metric, subset, delimiter, metric_first_field) ==
  IF metric_first_field THEN metric \o delimiter \o subset
  ELSE subset \o metric \o delimiter

\* Lines 196-199: the field the sum is compared to.
CheckFieldLeftSwapped(metric, subset, group, delimiter, metric_first_field) ==
  IF metric_first_field THEN subset \o metric \o delimiter \o group
  ELSE metric \o delimiter \o subset \o group
CheckFieldLeft(metric, subset, group, delimiter, metric_first_field) ==
  IF metric_first_field THEN metric \o delimiter \o subset \o group
  ELSE subset \o metric \o delimiter \o group

\* Lines 178-184: the fields of one metric that are in the table, and the
\* warnings for those that are not.
SumGroupExprs(field_prefix, label_combos, info_fields) ==
  LET Present(label) == (field_prefix \o label) \in info_fields
      present == SelectSeq(label_combos, Present)
  IN [k \in 1..Len(present) |-> field_prefix \o present[k]]

Warnings(field_prefix, label_combos, info_fields) ==
  LET Absent(label) == (field_prefix \o label) \notin info_fields
      absent == SelectSeq(label_combos, Absent)
  IN [k \in 1..Len(absent) |-> field_prefix \o absent[k]]

\* Line 187, hl.sum(sum_group_exprs): Hail cannot impute the type of an
\* empty Python list, so the sum of no field raises.
SumRaisesNever(sum_group_exprs) == FALSE
SumRaises(sum_group_exprs) == sum_group_exprs = <<>>

\* The metrics whose sum raises, by position.
RaisingSums(metrics, subset, label_combos, info_fields, delimiter, metric_first_field) ==
  {k \in 1..Len(metrics) :
     SumRaises(SumGroupExprs(FieldPrefix(metrics[k], subset, delimiter,
                                         metric_first_field),
                             label_combos, info_fields))}

\* Lines 171-188: annot_dict, one sum per metric.
RECURSIVE AnnotDict(_, _, _, _, _, _, _, _)
AnnotDict(metrics, subset, group, sum_group, label_combos, info_fields, delimiter, metric_first_field) ==
  IF metrics = <<>> THEN <<>>
  ELSE LET n == Len(metrics)
           metric == metrics[n]
           field_prefix == FieldPrefix(metric, subset, delimiter, metric_first_field)
       IN DictSet(AnnotDict(SubSeq(metrics, 1, n - 1), subset, group, sum_group,
                            label_combos, info_fields, delimiter,
                            metric_first_field),
                  "sum" \o delimiter \o field_prefix \o group \o delimiter
                    \o sum_group,
                  SumGroupExprs(field_prefix, label_combos, info_fields))

RECURSIVE AllWarnings(_, _, _, _, _, _)
AllWarnings(metrics, subset, label_combos, info_fields, delimiter, metric_first_field) ==
  IF metrics = <<>> THEN <<>>
  ELSE Warnings(FieldPrefix(Head(metrics), subset, delimiter, metric_first_field),
                label_combos, info_fields)
         \o AllWarnings(Tail(metrics), subset, label_combos, info_fields,
                        delimiter, metric_first_field)

\* Lines 194-210: one entry per metric, keyed by its description; the
\* predicate is t.info[check_field_left] != annot_dict[check_field_right].
RECURSIVE FieldCheckExpr(_, _, _, _, _, _, _)
FieldCheckExpr(metrics, subset, group, sum_group, annot_dict, delimiter, metric_first_field) ==
  IF metrics = <<>> THEN <<>>
  ELSE LET n == Len(metrics)
           check_field_left ==
             CheckFieldLeft(metrics[n], subset, group, delimiter, metric_first_field)
           check_field_right ==
             "sum" \o delimiter \o check_field_left \o delimiter \o sum_group
       IN DictSet(FieldCheckExpr(SubSeq(metrics, 1, n - 1), subset, group,
                                 sum_group, annot_dict, delimiter,
                                 metric_first_field),
                  check_field_left \o " = " \o check_field_right,
                  [left |-> check_field_left, right |-> check_field_right,
                   agg_func |-> "count_where",
                   summed |-> IF HasKey(annot_dict, check_field_right)
                              THEN Get(annot_dict, check_field_right)
                              ELSE <<"KeyError">>])

NotBuilt ==
  [raised |-> "", label_groups |-> <<>>, label_combos |-> <<>>, group |-> "",
   sum_group |-> "", annot_dict |-> <<>>, warnings |-> <<>>,
   field_check_expr |-> <<>>]

\* The whole call of make_group_sum_expr_dict: what it returns or raises
\* and the caller's mapping after it (label_groups.pop removes the group
\* axis from the caller's dictionary).
MakeGroupSumExprDict(info_fields, subset_arg, lg, sort_order, delimiter, metric_first_field, metrics) ==
  LET subset == IF subset_arg # "" THEN subset_arg \o delimiter ELSE subset_arg
      label_combos == LabelCombosCall(lg, delimiter)
  IN
  IF ~HasKey(lg, "group")
  THEN [NotBuilt EXCEPT !.raised = "KeyError", !.label_groups = lg,
                        !.label_combos = label_combos]
  ELSE
    LET group == Get(lg, "group")[1]
        lg2 == Pop(lg, "group")
        sum_group == SumGroup(lg2, sort_order, delimiter)
        raising == RaisingSums(metrics, subset, label_combos, info_fields,
                               delimiter, metric_first_field)
        \* the metrics the first loop gets to: all, or those up to the
        \* first whose sum raises
        summed == IF raising = {} THEN metrics
                  ELSE SubSeq(metrics, 1,
                              CHOOSE k \in raising : \A j \in raising : k <= j)
        annot_dict == AnnotDict(IF raising = {} THEN metrics
                                ELSE SubSeq(summed, 1, Len(summed) - 1),
                                subset, group, sum_group, label_combos,
                                info_fields, delimiter, metric_first_field)
        warnings == AllWarnings(summed, subset, label_combos, info_fields,
                                delimiter, metric_first_field)
        field_check_expr == FieldCheckExpr(metrics, subset, group, sum_group,
                                           annot_dict, delimiter,
                                           metric_first_field)
        lefts == {CheckFieldLeft(metrics[k], subset, group, delimiter,
                                 metric_first_field) : k \in 1..Len(metrics)}
        raised == IF raising # {} THEN "TypeError"
                  ELSE IF ~(lefts \subseteq info_fields) THEN "LookupError"
                  ELSE IF \E k \in 1..Len(field_check_expr) :
                            field_check_expr[k].values.summed = <<"KeyError">>
                       THEN "KeyError" ELSE ""
    IN [raised |-> raised, label_groups |-> lg2, label_combos |-> label_combos,
        group |-> group, sum_group |-> sum_group, annot_dict |-> annot_dict,
        warnings |-> warnings,
        field_check_expr |-> IF raised = "" THEN field_check_expr ELSE <<>>]

(* -------------------------- missingness walker ------------------------- *)

\* Largest number of rows of a generated dataset.
MaxMissRows == 2

\* The types of a schema: a scalar, an array, a set, or a struct of named
\* fields.
ScalarT == [kind |-> "scalar", fields |-> <<>>]
ArrayT == [kind |-> "array", fields |-> <<>>]
SetT == [kind |-> "set", fields |-> <<>>]
StructT(fields) == [kind |-> "struct", fields |-> fields]
Field(name, type) == [name |-> name, type |-> type]

\* The values: NA (hl.missing), a present scalar, a collection with its
\* elements ("v" a present element, "NA" a missing one), a struct with the
\* values of its fields.
NA == [na |-> TRUE, elems |-> <<>>, sub |-> <<>>]
Present == [na |-> FALSE, elems |-> <<>>, sub |-> <<>>]
Coll(elems) == [na |-> FALSE, elems |-> elems, sub |-> <<>>]
StructV(sub) == [na |-> FALSE, elems |-> <<>>, sub |-> sub]

\* The element lists of the collections of a dataset.
ElemLists == {<<>>, <<"NA">>, <<"v">>, <<"v", "NA">>, <<"NA", "NA">>}

\* The values of a type.
RECURSIVE Values(_)
Values(type) ==
  IF type.kind = "scalar" THEN {NA, Present}
  ELSE IF type.kind \in {"array", "set"}
  THEN {NA} \cup {Coll(el) : el \in ElemLists}
  ELSE LET n == Len(type.fields)
           all == UNION {Values(type.fields[k].type) : k \in 1..n}
       IN {NA} \cup {StructV(sub) :
                       sub \in {f \in [1..n -> all] :
                                  \A k \in 1..n :
                                    f[k] \in Values(type.fields[k].type)}}

\* The schema and the five rows of ht_for_check_missingness_of_struct.
FixtureType ==
  StructT(<<Field("a", ScalarT), Field("b", ScalarT),
            Field("c", StructT(<<Field("d", ArrayT), Field("e", ScalarT),
                                 Field("f", SetT)>>))>>)

Fixture ==
  <<StructV(<<Present, Present,
              StructV(<<Coll(<<"NA", "NA">>), Present, Coll(<<"v", "v">>)>>)>>),
    StructV(<<Present, Present,
              StructV(<<Coll(<<"v", "NA">>), NA, Coll(<<"v", "NA">>)>>)>>),
    StructV(<<Present, NA, StructV(<<NA, NA, Coll(<<>>)>>)>>),
    StructV(<<Present, Present,
              StructV(<<Coll(<<"v", "v">>), Present, Coll(<<>>)>>)>>),
    StructV(<<Present, Present,
              StructV(<<Coll(<<>>), Present, Coll(<<>>)>>)>>)>>

\* The schemas of the generated datasets.
GeneratedTypes ==
  {StructT(<<Field("a", ScalarT), Field("d", ArrayT)>>),
   StructT(<<Field("c", StructT(<<Field("e", ScalarT), Field("f", SetT)>>))>>)}

\* struct_expr[key]: the field of a struct value (missing if the struct is).
FieldIndex(type, key) ==
  CHOOSE k \in 1..Len(type.fields) : type.fields[k].name = key
FieldType(type, key) == type.fields[FieldIndex(type, key)].type
GetField(v, type, key) == IF v.na THEN NA ELSE v.sub[FieldIndex(type, key)]

\* The value of the expression ht.s.<path> on a row.
RECURSIVE EvalPath(_, _, _)
EvalPath(v, type, path) ==
  IF path = <<>> THEN v
  ELSE EvalPath(GetField(v, type, Head(path)), FieldType(type, Head(path)),
                Tail(path))

\* hl.is_missing(x)
IsMissing(v) == IF v.na THEN "T" ELSE "F"

\* struct_expr.all(lambda x: hl.is_missing(x)): missing on a missing
\* collection, true on an empty one.
AllIsMissing(v) ==
  IF v.na THEN "M"
  ELSE IF \A k \in 1..Len(v.elems) : v.elems[k] = "NA" THEN "T" ELSE "F"

\* hl.or_else(a, b): b if a is missing.
OrElseFalse(a, b) == IF a = "M" THEN "F" ELSE a
OrElse(a, b) == IF a = "M" THEN b ELSE a

\* A node of the dictionary check_missingness_of_struct returns: a nested
\* dictionary, or the aggregation expression of a leaf.
NoExpr == [pred |-> "", path |-> <<>>]
DictNode(items) == [isdict |-> TRUE, items |-> items, expr |-> NoExpr]
LeafNode(pred, path) ==
  [isdict |-> FALSE, items |-> <<>>, expr |-> [pred |-> pred, path |-> path]]

\* check_missingness_of_struct(struct_expr, prefix), struct_expr being the
\* expression ht.s.<path> of the given type.
RECURSIVE CheckMissingnessOfStruct(_, _, _)
CheckMissingnessOfStruct(type, path, pre) ==
  IF type.kind = "struct"
  THEN DictNode([k \in 1..Len(type.fields) |->
                   LET key == type.fields[k].name
                   IN Item(pre \o "." \o key,
                           CheckMissingnessOfStruct(type.fields[k].type,
                                                    Append(path, key),
                                                    pre \o "." \o key))])
  ELSE IF type.kind \in {"array", "set"}
  THEN LeafNode("or_else_all_is_missing", path)
  ELSE LeafNode("is_missing", path)

\* The predicate of a leaf on a row.
PredValue(expr, row, type) ==
  LET v == EvalPath(row, type, expr.path)
  IN IF expr.pred = "or_else_all_is_missing"
     THEN OrElse(AllIsMissing(v), "T")
     ELSE IsMissing(v)

\* hl.agg.fraction(predicate): the rows on which the predicate is true over
\* all the rows, as the pair <<numerator, denominator>>; missing on no row.
NoFraction == <<0, 0>>
Fraction(rows, type, expr) ==
  IF Len(rows) = 0 THEN NoFraction
  ELSE <<Cardinality({i \in 1..Len(rows) : PredValue(expr, rows[i], type) = "T"}),
         Len(rows)>>

\* A node of the aggregated struct: a dictionary or a fraction.
ResultDict(items) == [isdict |-> TRUE, items |-> items, value |-> NoFraction]
ResultLeaf(value) == [isdict |-> FALSE, items |-> <<>>, value |-> value]

\* ht.aggregate(hl.struct(**metric_missingness)): every aggregation
\* expression evaluated over the rows, the nesting kept.
RECURSIVE Aggregate(_, _, _)
Aggregate(node, rows, type) ==
  IF node.isdict
  THEN ResultDict([k \in 1..Len(node.items) |->
                     Item(node.items[k].name,
                          Aggregate(node.items[k].values, rows, type))])
  ELSE ResultLeaf(Fraction(rows, type, node.expr))

\* dict.update(other)
RECURSIVE Update(_, _)
Update(d, other) ==
  IF other = <<>> THEN d
  ELSE Update(DictSet(d, Head(other).name, Head(other).values), Tail(other))

\* flatten_missingness_struct(missingness_struct), over the items of the
\* struct in order.
RECURSIVE FlattenMissingnessStruct(_)
FlattenMissingnessStruct(items) ==
  IF items = <<>> THEN <<>>
  ELSE LET n == Len(items)
           missingness_dict_so_far == FlattenMissingnessStruct(SubSeq(items, 1, n - 1))
           key == items[n].name
           value == items[n].values
       IN IF value.isdict
          THEN Update(missingness_dict_so_far, FlattenMissingnessStruct(value.items))
          ELSE DictSet(missingness_dict_so_far, key, value.value)

(* ------------------------------ actions -------------------------------- *)

\* No sum-group builder is running.
IdleCombo ==
  /\ label_groups = <<>>
  /\ ccall = <<>>
  /\ expansions = <<>>
  /\ built = <<>>
  /\ cpc = "off"

\* No missingness walk is running.
IdleMiss ==
  /\ ht_s = <<>>
  /\ s_type = <<>>
  /\ prefix = ""
  /\ metric_missingness = <<>>
  /\ missingness_struct = <<>>
  /\ missingness_dict = <<>>
  /\ mpc = "off"

\* No reporter, executor or summary is running.
IdleCheck ==
  /\ tables = <<>>
  /\ pc = "off"
  /\ call = NoCall
  /\ ht_field_check_counts = <<>>
  /\ idx = 0
  /\ log = <<>>

\* No unfurling is running.
IdleUnfurl ==
  /\ uht = <<>>
  /\ indexed_array_annotations = <<>>
  /\ ucall = ""
  /\ uresult = <<>>
  /\ upc = "off"

\* No step of compute_and_check_summations is running.
IdleSum ==
  /\ sht = <<>>
  /\ comparison_groups = <<>>
  /\ sresult = <<>>
  /\ spc = "off"

\* No step of check_sex_chr_metrics is running.
IdleSex ==
  /\ xht = <<>>
  /\ xcall = <<>>
  /\ xlog = <<>>
  /\ xpc = "off"

\* No step of validate_release_t is running.
IdleVal ==
  /\ vt = <<>>
  /\ vcall = <<>>
  /\ vstage = 0
  /\ vlog = <<>>
  /\ vresult = "unset"
  /\ vpc = "off"

\* No step of the builders of field_check_expr is running.
IdleReg ==
  /\ rht = <<>>
  /\ rcall = <<>>
  /\ rregs = <<>>
  /\ registry = <<>>
  /\ rlog = <<>>
  /\ rpc = "off"

\* No step of vcf_field_check is running.
IdleVcf ==
  /\ ft = <<>>
  /\ fcall = <<>>
  /\ flog = <<>>
  /\ fresult = "unset"
  /\ fpc = "off"

\* No step of check_global_and_row_annot_lengths is running.
IdleLen ==
  /\ lt = <<>>
  /\ lcall = <<>>
  /\ llog = <<>>
  /\ lpc = "off"

\* Every part of the module but the one named is idle.
OthersIdle(part) ==
  /\ part = "check" \/ IdleCheck
  /\ part = "combo" \/ IdleCombo
  /\ part = "miss" \/ IdleMiss
  /\ part = "unfurl" \/ IdleUnfurl
  /\ part = "sum" \/ IdleSum
  /\ part = "sex" \/ IdleSex
  /\ part = "val" \/ IdleVal
  /\ part = "reg" \/ IdleReg
  /\ part = "vcf" \/ IdleVcf
  /\ part = "len" \/ IdleLen

InitCheck ==
  /\ tables \in {<<tv>> : tv \in CheckTables \cup FilterTables}
  /\ pc = "idle"
  /\ call = NoCall
  /\ ht_field_check_counts = <<>>
  /\ idx = 0
  /\ log = <<>>
  /\ OthersIdle("check")

\* A caller invokes generic_field_check directly.
CallGenericFieldCheck ==
  /\ pc = "idle"
  /\ \E display_fields \in {{"p"}, {"p", "q"}} \cap SUBSET tables[CallerHandle].fields,
        cond_expr \in (Exprs \cap tables[CallerHandle].fields) \cup {None},
        verbose \in BOOLEAN, show_percent_sites \in BOOLEAN,
        n_fail \in {NoneInt} \cup (0..MaxRows),
        ht_count \in {NoneInt, Count(tables[CallerHandle].rows)} :
       LET r == GenericFieldCheck(tables, CallerHandle, "d1", display_fields,
                                  cond_expr, verbose, show_percent_sites,
                                  n_fail, ht_count)
       IN /\ call' = [NoCall EXCEPT !.fn = "generic_field_check",
                                    !.check_description = "d1",
                                    !.display_fields = display_fields,
                                    !.cond_expr = cond_expr,
                                    !.verbose = verbose,
                                    !.show_percent_sites = show_percent_sites,
                                    !.n_fail = n_fail,
                                    !.ht_count = ht_count]
          /\ log' = r.events
          /\ tables' = r.tables
          /\ pc' = IF r.raised THEN "raised" ELSE "done"
  /\ UNCHANGED <<ht_field_check_counts, idx>>
  /\ UNCHANGED nonCheckVars

\* generic_field_check_loop, lines 358-360: the one aggregation.
LoopAggregate ==
  /\ pc = "idle"
  /\ \E field_check_expr \in FieldCheckExprsOf(tables[CallerHandle]),
        verbose \in BOOLEAN, show_percent_sites \in BOOLEAN,
        ht_count \in {NoneInt, Count(tables[CallerHandle].rows)} :
       /\ call' = [NoCall EXCEPT !.fn = "generic_field_check_loop",
                                 !.field_check_expr = field_check_expr,
                                 !.verbose = verbose,
                                 !.show_percent_sites = show_percent_sites,
                                 !.ht_count = ht_count]
       /\ ht_field_check_counts' =
            StructItems(field_check_expr, tables[CallerHandle].rows)
       /\ log' = <<Ev("aggregate", None, Len(field_check_expr), 0, NoTable)>>
  /\ idx' = 1
  /\ pc' = "loop"
  /\ UNCHANGED tables
  /\ UNCHANGED nonCheckVars

\* generic_field_check_loop, lines 361-371: one iteration of the for loop.
LoopReport ==
  /\ pc = "loop"
  /\ idx <= Len(ht_field_check_counts)
  /\ LET item == ht_field_check_counts[idx]
         v == Lookup(call.field_check_expr, item.desc)
         r == GenericFieldCheck(tables, CallerHandle, item.desc,
                                v.display_fields, v.expr, call.verbose,
                                call.show_percent_sites, item.n, call.ht_count)
     IN /\ log' = log \o r.events
        /\ tables' = r.tables
        /\ pc' = IF r.raised THEN "raised" ELSE "loop"
  /\ idx' = idx + 1
  /\ UNCHANGED <<call, ht_field_check_counts>>
  /\ UNCHANGED nonCheckVars

\* generic_field_check_loop returns after the last entry.
LoopReturn ==
  /\ pc = "loop"
  /\ idx > Len(ht_field_check_counts)
  /\ pc' = "done"
  /\ UNCHANGED <<tables, call, ht_field_check_counts, idx, log>>
  /\ UNCHANGED nonCheckVars

\* A caller invokes summarize_variant_filters on a table with filters.
CallSummarizeVariantFilters ==
  /\ pc = "idle"
  /\ "filters" \in tables[CallerHandle].fields
  /\ \E single_filter_count \in BOOLEAN, site_gt_check_expr \in {None, "lcr"} :
       LET r == SummarizeVariantFilters(tables, CallerHandle, <<"lcr">>,
                                        single_filter_count, site_gt_check_expr)
       IN /\ call' = [NoCall EXCEPT !.fn = "summarize_variant_filters",
                                    !.verbose = single_filter_count,
                                    !.cond_expr = site_gt_check_expr]
          /\ log' = r.events
          /\ tables' = r.tables
  /\ pc' = "done"
  /\ UNCHANGED <<ht_field_check_counts, idx>>
  /\ UNCHANGED nonCheckVars

NextCheck ==
  \/ CallGenericFieldCheck
  \/ CallSummarizeVariantFilters
  \/ LoopAggregate
  \/ LoopReport
  \/ LoopReturn

SpecCheck == InitCheck /\ [][NextCheck]_vars


(* ------------- the expander and the sum-group builder: steps ----------- *)

\* The label groups a caller may pass: the strata of sum_group_callstats
\* (group with pop, sex, or both) and strata without a group axis, the
\* axes inserted in any order.
AxisValues(name, npops, ngroups) ==
  IF name = "pop" THEN SubSeq(POPS, 1, npops)
  ELSE IF name = "sex" THEN SEXES
  ELSE SubSeq(GROUPS, 1, ngroups)

AxisOrders ==
  {<<"pop", "sex">>, <<"sex", "pop">>,
   <<"group", "pop">>, <<"pop", "group">>,
   <<"group", "sex">>, <<"sex", "group">>,
   <<"group", "pop", "sex">>, <<"group", "sex", "pop">>,
   <<"pop", "group", "sex">>, <<"pop", "sex", "group">>,
   <<"sex", "group", "pop">>, <<"sex", "pop", "group">>}

LabelGroupDicts ==
  {[k \in 1..Len(axes) |-> Item(axes[k], AxisValues(axes[k], npops, ngroups))] :
     axes \in AxisOrders, npops \in 1..MaxPops, ngroups \in 1..Len(GROUPS)}

\* The fields a complete table holds for a call: the totals and every
\* summed field.
ExpectedInfo(subset_arg, lg, delimiter, metric_first_field) ==
  LET subset == IF subset_arg # "" THEN subset_arg \o delimiter ELSE subset_arg
      combos == LabelCombosCall(lg, delimiter)
      group == IF HasKey(lg, "group") THEN Get(lg, "group")[1] ELSE "adj"
  IN {CheckFieldLeft(Metrics[m], subset, group, delimiter, metric_first_field) :
        m \in 1..Len(Metrics)}
     \cup {FieldPrefix(Metrics[m], subset, delimiter, metric_first_field)
             \o combos[k] : m \in 1..Len(Metrics), k \in 1..Len(combos)}

\* The table's info fields: complete, or, for the whole callset, without
\* the first summed field, or, for a subset, without any summed field of
\* the last metric.
InfoChoices(subset_arg, lg, delimiter, metric_first_field) ==
  LET all == ExpectedInfo(subset_arg, lg, delimiter, metric_first_field)
      subset == IF subset_arg # "" THEN subset_arg \o delimiter ELSE subset_arg
      combos == LabelCombosCall(lg, delimiter)
      first == FieldPrefix(Metrics[1], subset, delimiter, metric_first_field)
                 \o combos[1]
      last == {FieldPrefix(Metrics[Len(Metrics)], subset, delimiter,
                           metric_first_field) \o combos[k] :
                 k \in 1..Len(combos)}
  IN {all, IF subset_arg = "" THEN all \ {first} ELSE all \ last}

InitCombo ==
  /\ label_groups \in LabelGroupDicts
  /\ \E subset \in {"", "non_v2"}, delimiter \in {"-", "_"},
        metric_first_field \in BOOLEAN,
        sort_order \in {SORT_ORDER, <<"sex", "pop", "group">>} :
       \E info_fields \in InfoChoices(subset, label_groups, delimiter,
                                      metric_first_field) :
         ccall = [info_fields |-> info_fields, subset |-> subset,
                  label_groups |-> label_groups, sort_order |-> sort_order,
                  delimiter |-> delimiter,
                  metric_first_field |-> metric_first_field,
                  metrics |-> Metrics]
  /\ expansions = <<>>
  /\ built = NotBuilt
  /\ cpc = "ready"
  /\ OthersIdle("combo")

\* A caller expands its mapping with make_label_combos, before or after
\* the builder ran on it; the call is recorded with its arguments.
CallMakeLabelCombos ==
  /\ cpc \in {"ready", "built", "raised"}
  /\ Len(expansions) < MaxExpansions
  /\ expansions' =
       Append(expansions,
              [label_groups |-> label_groups, sort_order |-> ccall.sort_order,
               delimiter |-> ccall.delimiter,
               combos |-> MakeLabelCombos(label_groups, ccall.sort_order,
                                          ccall.delimiter)])
  /\ UNCHANGED <<label_groups, ccall, built, cpc>>
  /\ UNCHANGED nonComboVars

\* A caller invokes make_group_sum_expr_dict with its mapping (again, after
\* a first call returned, with the same dictionary object).
CallMakeGroupSumExprDict ==
  /\ cpc \in {"ready", "built"}
  /\ LET r == MakeGroupSumExprDict(ccall.info_fields, ccall.subset, label_groups,
                                   ccall.sort_order, ccall.delimiter,
                                   ccall.metric_first_field, ccall.metrics)
     IN /\ built' = r
        /\ label_groups' = r.label_groups
        /\ cpc' = IF r.raised = "" THEN "built" ELSE "raised"
  /\ ccall' = [ccall EXCEPT !.label_groups = label_groups]
  /\ UNCHANGED expansions
  /\ UNCHANGED nonComboVars

NextCombo ==
  \/ CallMakeLabelCombos
  \/ CallMakeGroupSumExprDict

SpecCombo == InitCombo /\ [][NextCombo]_vars

(* ------------------- properties of reporter and executor --------------- *)

\* The caller's dataset.
CallerTable == tables[CallerHandle]

InLoop == call.fn = "generic_field_check_loop"
InReporter == call.fn = "generic_field_check"
InSummary == call.fn = "summarize_variant_filters"

\* Positions of the log holding one of the given events.
At(ops) == {k \in 1..Len(log) : log[k].op \in ops}

\* The PASSED / Found lines, in the order they were logged.
Classifications ==
  LET IsClass(e) == e.op \in {"found", "passed"} IN SelectSeq(log, IsClass)

\* The rows a table of failing rows must hold: the key and the display
\* fields of exactly the rows of tv on which cond_expr is true.
ShowsFailingRowsOf(shown, tv, cond_expr, display_fields) ==
  /\ shown.fields = {"idx"} \cup display_fields
  /\ {shown.rows[k]["idx"] : k \in 1..Len(shown.rows)}
       = {tv.rows[k]["idx"] : k \in {j \in 1..Len(tv.rows) :
                                       tv.rows[j][cond_expr] = "T"}}
  /\ \A k \in 1..Len(shown.rows) : \A j \in 1..Len(shown.rows) :
       shown.rows[k]["idx"] = shown.rows[j]["idx"] => k = j
  /\ \A k \in 1..Len(shown.rows) : \A f \in display_fields :
       shown.rows[k][f] = tv.rows[shown.rows[k]["idx"]][f]

\* C1: batched vs. unbatched equivalence.  Every failure count the
\* executor hands to the reporter for an entry equals the count the
\* reporter computes on its own for that entry's predicate by
\* filter(predicate).count(), whatever the predicate is on each row (true,
\* false or missing).
C1_BatchedEqualsUnbatched ==
  InLoop =>
    /\ \A k \in 1..Len(ht_field_check_counts) :
         ht_field_check_counts[k].n =
           FailCount(CallerTable,
                     Lookup(call.field_check_expr,
                            ht_field_check_counts[k].desc).expr,
                     NoneInt)
    /\ \A k \in At({"found", "passed"}) :
         log[k].n = Count(FilterRows(CallerTable.rows,
                                     Lookup(call.field_check_expr,
                                            log[k].desc).expr))

\* C1 witness: the loop has reported two entries over a dataset on which a
\* registered predicate is true on one row and missing on another.
C1_Witness ==
  /\ InLoop /\ pc = "done"
  /\ Len(call.field_check_expr) = 2
  /\ Len(Classifications) = 2
  /\ \E e \in Exprs : \E j, k \in 1..Len(CallerTable.rows) :
       /\ call.field_check_expr[1].expr = e
       /\ CallerTable.rows[j][e] = "T"
       /\ CallerTable.rows[k][e] = "M"

\* C2: in a run of the executor over k entries exactly one aggregate
\* request is issued, it is the first event, and the reporter is then
\* invoked once per entry in registration order with the n_fail the
\* aggregate result holds for that description.
C2_OneAggregateThenReportsInOrder ==
  (InLoop /\ pc \in {"loop", "done"}) =>
    /\ At({"aggregate"}) = {1}
    /\ Len(ht_field_check_counts) = Len(call.field_check_expr)
    /\ Len(Classifications) = idx - 1
    /\ pc = "done" => Len(Classifications) = Len(call.field_check_expr)
    /\ \A k \in 1..Len(Classifications) :
         /\ Classifications[k].desc = call.field_check_expr[k].desc
         /\ ht_field_check_counts[k].desc = call.field_check_expr[k].desc
         /\ Classifications[k].n = ht_field_check_counts[k].n

\* C2 witness: a finished run over two entries with different counts.
C2_Witness ==
  /\ InLoop /\ pc = "done"
  /\ Len(call.field_check_expr) = 2
  /\ Len(Classifications) = 2
  /\ ht_field_check_counts[1].n # ht_field_check_counts[2].n

\* C3 as stated: a run of the executor requests exactly one full-dataset
\* counting pass (aggregate, count, or filter-then-count).
C3_ExactlyOnePass ==
  (InLoop /\ pc = "done") =>
    Cardinality(At({"aggregate", "count", "filter_count"})) = 1

\* C3 amended: a run of the executor issues exactly one aggregate and no
\* filter-then-count; the reporter counts the table once per entry exactly
\* when show_percent_sites is set and ht_count is not supplied, so the
\* passes are 1 if show_percent_sites is off or ht_count is given and
\* 1 + k otherwise.
C3_OnePassPlusCounts ==
  (InLoop /\ pc = "done") =>
    /\ Cardinality(At({"aggregate"})) = 1
    /\ At({"filter_count"}) = {}
    /\ Cardinality(At({"count"})) =
         IF call.show_percent_sites /\ call.ht_count = NoneInt
         THEN Len(call.field_check_expr) ELSE 0

\* C3 witness: a finished run over two entries with show_percent_sites set
\* and no ht_count.
C3_Witness ==
  /\ InLoop /\ pc = "done"
  /\ Len(call.field_check_expr) = 2
  /\ call.show_percent_sites /\ call.ht_count = NoneInt
  /\ Cardinality(At({"count"})) = 2

\* The count a direct call of the reporter classifies.
DirectN ==
  IF call.n_fail # NoneInt THEN call.n_fail
  ELSE Cardinality({k \in 1..Len(CallerTable.rows) :
                      CallerTable.rows[k][call.cond_expr] = "T"})

DirectValid == InReporter /\ ~(call.n_fail = NoneInt /\ call.cond_expr = None)

\* C4: the reporter logs PASSED iff the failure count n is 0 and
\* "Found n sites" iff n > 0, with n the supplied n_fail when there is
\* one (it takes precedence over cond_expr) and the predicate's count
\* otherwise; every line logged by the executor's calls classifies its own
\* count the same way.
C4_ClassificationByCount ==
  /\ DirectValid =>
       /\ Len(Classifications) = 1
       /\ Classifications[1].n = DirectN
       /\ Classifications[1].op = (IF DirectN = 0 THEN "passed" ELSE "found")
  /\ \A k \in At({"passed"}) : log[k].n = 0
  /\ \A k \in At({"found"}) : log[k].n > 0

\* C4 witness: n_fail = 1 was supplied together with a predicate that is
\* true on no row, and the reporter found 1 failing site.
C4_Witness ==
  /\ DirectValid /\ pc = "done"
  /\ call.n_fail = 1 /\ call.cond_expr # None
  /\ \A k \in 1..Len(CallerTable.rows) : CallerTable.rows[k][call.cond_expr] # "T"
  /\ Len(CallerTable.rows) > 0
  /\ \E k \in At({"found"}) : log[k].n = 1

\* C5: the reporter raises ValueError exactly when neither n_fail nor
\* cond_expr is given, and then nothing precedes the error: no engine
\* request, no new table and no report line.
C5_ValueErrorIffNeither ==
  /\ InReporter =>
       /\ (At({"ValueError"}) # {}) <=>
            (call.n_fail = NoneInt /\ call.cond_expr = None)
       /\ At({"ValueError"}) # {} =>
            /\ Len(log) = 1
            /\ Len(tables) = 1
            /\ pc = "raised"
  /\ ~InReporter => At({"ValueError"}) = {}

\* C5 witness: the call with neither argument has raised.
C5_Witness ==
  /\ InReporter /\ pc = "raised"
  /\ call.n_fail = NoneInt /\ call.cond_expr = None
  /\ log[1].op = "ValueError"

C7_CallerDatasetUnchanged ==
  [][/\ tables'[CallerHandle] = tables[CallerHandle]
     /\ {"is_filtered", "in_problematic_region", "_fail"}
          \cap tables'[CallerHandle].fields = {}]_vars

\* C7 witness: the filter-status summary has returned, having annotated a
\* local copy of a non-empty dataset with the derived columns.
C7_Witness ==
  /\ InSummary /\ pc = "done"
  /\ Len(CallerTable.rows) > 0
  /\ \E h \in 2..Len(tables) :
       {"is_filtered", "in_problematic_region"} \subseteq tables[h].fields

(* ------------- properties of the expander and the builder -------------- *)

\* The product of the lengths of the axes' value lists.
RECURSIVE ProductOfLengths(_)
ProductOfLengths(lg) ==
  IF lg = <<>> THEN 1 ELSE Len(Head(lg).values) * ProductOfLengths(Tail(lg))

\* The selections of one value per axis, the axes in the order of order.
Selections(lg, order) ==
  LET ks == SortedKeys(Keys(lg), order)
      all == UNION {Range(lg[k].values) : k \in 1..Len(lg)}
  IN {c \in [1..Len(ks) -> all] :
        \A k \in 1..Len(ks) : c[k] \in Range(Get(lg, ks[k]))}

\* The same axes and values, inserted in any order.
Insertions(lg) ==
  {p \in [1..Len(lg) -> Range(lg)] : Range(p) = Range(lg)}

\* combos is a complete expansion of lg: as many strings as the product of
\* the axes' lengths, one string per selection of one value per axis.
Complete(combos, lg, order, delimiter) ==
  /\ Len(combos) = ProductOfLengths(lg)
  /\ Range(combos) = {Join(c, delimiter) : c \in Selections(lg, order)}
  /\ Cardinality(Range(combos)) = Len(combos)

\* The builder has expanded the mapping it was given.
Expanded == cpc \in {"built", "raised"}

\* C8: two recorded expansions of the same mapping, order and delimiter are
\* the same sequence of strings; every expansion, the one of the builder
\* (line 153) included, has as many strings as the product of the lengths of
\* the axes' value lists, one string per selection of one value per axis.
C8_ExpansionDeterministicAndComplete ==
  /\ \A i, j \in 1..Len(expansions) :
       /\ expansions[i].label_groups = expansions[j].label_groups
       /\ expansions[i].sort_order = expansions[j].sort_order
       /\ expansions[i].delimiter = expansions[j].delimiter
       => expansions[i].combos = expansions[j].combos
  /\ \A i \in 1..Len(expansions) :
       Complete(expansions[i].combos, expansions[i].label_groups,
                expansions[i].sort_order, expansions[i].delimiter)
  /\ Expanded =>
       /\ Complete(built.label_combos, ccall.label_groups, SORT_ORDER,
                   ccall.delimiter)
       /\ \A i \in 1..Len(expansions) :
            /\ expansions[i].label_groups = ccall.label_groups
            /\ expansions[i].sort_order = SORT_ORDER
            => expansions[i].combos = built.label_combos

\* C8 witness: the builder expanded three axes into at least four strings
\* and the same mapping was expanded twice directly.
C8_Witness ==
  /\ cpc = "built"
  /\ Len(ccall.label_groups) = 3
  /\ Len(built.label_combos) >= 4
  /\ Len(expansions) >= 2
  /\ expansions[1].label_groups = expansions[2].label_groups
  /\ Len(expansions[1].combos) >= 2

\* C9: the strings of an expansion and the name of the sum group are the
\* same for every order in which the caller may have inserted the axes;
\* each string joins the values in the order of the sort-order list, so
\* that pop and sex give "afr-XX" and never "XX-afr".
C9_CanonicalAxisOrder ==
  /\ \A i \in 1..Len(expansions) :
       LET x == expansions[i]
       IN /\ \A p \in Insertions(x.label_groups) :
               MakeLabelCombos(p, x.sort_order, x.delimiter) = x.combos
          /\ Range(x.combos) \subseteq
               {Join(c, x.delimiter) : c \in Selections(x.label_groups,
                                                        x.sort_order)}
          /\ /\ x.sort_order = SORT_ORDER
             /\ x.delimiter = "-"
             /\ Range(Keys(x.label_groups)) = {"pop", "sex"}
             => /\ "afr-XX" \in Range(x.combos)
                /\ "XX-afr" \notin Range(x.combos)
  /\ Expanded =>
       /\ \A p \in Insertions(ccall.label_groups) :
            LabelCombosCall(p, ccall.delimiter) = built.label_combos
       /\ Range(built.label_combos) \subseteq
            {Join(c, ccall.delimiter) : c \in Selections(ccall.label_groups,
                                                         SORT_ORDER)}
  /\ cpc = "built" =>
       \A p \in Insertions(ccall.label_groups) :
         SumGroup(Pop(p, "group"), ccall.sort_order, ccall.delimiter)
           = built.sum_group

\* C9 witness: the builder returned for three axes inserted as sex, pop,
\* group, and a direct expansion of pop and sex inserted as sex, pop gave
\* "afr-XX".
C9_Witness ==
  /\ cpc = "built"
  /\ Keys(ccall.label_groups) = <<"sex", "pop", "group">>
  /\ ccall.sort_order = SORT_ORDER
  /\ built.sum_group = "pop" \o ccall.delimiter \o "sex"
  /\ \E i \in 1..Len(expansions) :
       /\ Keys(expansions[i].label_groups) = <<"sex", "pop">>
       /\ "afr-XX" \in Range(expansions[i].combos)

(* --------------------- the missingness walker: steps ------------------- *)

\* The datasets: the fixture or its first rows, and every dataset of at
\* most MaxMissRows rows of a generated schema; at least one row.
InitMiss ==
  /\ \/ /\ s_type = FixtureType
        /\ ht_s \in {SubSeq(Fixture, 1, n) : n \in 1..Len(Fixture)}
     \/ /\ s_type \in GeneratedTypes
        /\ ht_s \in UNION {[1..n -> Values(s_type)] : n \in 1..MaxMissRows}
  /\ prefix \in {"s", ""}
  /\ metric_missingness = <<>>
  /\ missingness_struct = <<>>
  /\ missingness_dict = <<>>
  /\ mpc = "ready"
  /\ OthersIdle("miss")

\* metric_missingness = check_missingness_of_struct(ht.s, prefix)
CallCheckMissingnessOfStruct ==
  /\ mpc = "ready"
  /\ metric_missingness' = CheckMissingnessOfStruct(s_type, <<>>, prefix).items
  /\ mpc' = "checked"
  /\ UNCHANGED <<ht_s, s_type, prefix, missingness_struct, missingness_dict>>
  /\ UNCHANGED nonMissVars

\* missingness_struct = ht.aggregate(hl.struct(**metric_missingness))
AggregateMissingness ==
  /\ mpc = "checked"
  /\ missingness_struct' = Aggregate(DictNode(metric_missingness), ht_s, s_type).items
  /\ mpc' = "aggregated"
  /\ UNCHANGED <<ht_s, s_type, prefix, metric_missingness, missingness_dict>>
  /\ UNCHANGED nonMissVars

\* missingness_dict = flatten_missingness_struct(missingness_struct)
CallFlattenMissingnessStruct ==
  /\ mpc = "aggregated"
  /\ missingness_dict' = FlattenMissingnessStruct(missingness_struct)
  /\ mpc' = "flat"
  /\ UNCHANGED <<ht_s, s_type, prefix, metric_missingness, missingness_struct>>
  /\ UNCHANGED nonMissVars

NextMiss ==
  \/ CallCheckMissingnessOfStruct
  \/ AggregateMissingness
  \/ CallFlattenMissingnessStruct

SpecMiss == InitMiss /\ [][NextMiss]_vars

(* ------------------ properties of the missingness walker --------------- *)

\* The leaves of a type, each as the path of field names that leads to it.
RECURSIVE LeafPaths(_)
LeafPaths(type) ==
  IF type.kind = "struct"
  THEN UNION {{<<type.fields[k].name>> \o p : p \in LeafPaths(type.fields[k].type)} :
                k \in 1..Len(type.fields)}
  ELSE {<<>>}

RECURSIVE TypeAt(_, _)
TypeAt(type, path) ==
  IF path = <<>> THEN type ELSE TypeAt(FieldType(type, Head(path)), Tail(path))

\* The dotted path of a leaf from the prefix.
RECURSIVE Dotted(_, _)
Dotted(pre, path) ==
  IF path = <<>> THEN pre ELSE Dotted(pre \o "." \o Head(path), Tail(path))

\* The rows in which a leaf counts as missing: a scalar that is absent; an
\* array or set that is absent, empty, or has only absent elements.
CountsAsMissing(row, path) ==
  LET v == EvalPath(row, s_type, path)
  IN IF TypeAt(s_type, path).kind \in {"array", "set"}
     THEN \/ v.na
          \/ v.elems = <<>>
          \/ \A k \in 1..Len(v.elems) : v.elems[k] = "NA"
     ELSE v.na

MissingRows(path) == {i \in 1..Len(ht_s) : CountsAsMissing(ht_s[i], path)}

\* The entries of the flattened dictionary under a key.
EntriesOf(key) ==
  {k \in 1..Len(missingness_dict) : missingness_dict[k].name = key}

\* The fraction n/d equals the decimal tenths/10.
EqualsTenths(frac, tenths) == frac[1] * 10 = tenths * frac[2]

\* C10: after check_missingness_of_struct, the aggregation and
\* flatten_missingness_struct on N >= 1 rows, the dictionary has exactly
\* one entry per leaf, keyed by the dotted path from the prefix; its value
\* is k/N, k the rows in which a scalar leaf is absent, or an array or set
\* leaf is absent, empty or has only absent elements; the value is in
\* [0, 1]; the five-row fixture gives s.a 0.0, s.b 0.2, s.c.d 0.6,
\* s.c.e 0.4, s.c.f 0.6.
C10_MissingnessComposition ==
  mpc = "flat" =>
    /\ Len(missingness_dict) = Cardinality(LeafPaths(s_type))
    /\ \A p \in LeafPaths(s_type) :
         /\ Cardinality(EntriesOf(Dotted(prefix, p))) = 1
         /\ \A k \in EntriesOf(Dotted(prefix, p)) :
              LET frac == missingness_dict[k].values
              IN /\ frac = <<Cardinality(MissingRows(p)), Len(ht_s)>>
                 /\ 0 <= frac[1] /\ frac[1] <= frac[2] /\ frac[2] >= 1
    /\ (ht_s = Fixture /\ prefix = "s") =>
         /\ Keys(missingness_dict) = <<"s.a", "s.b", "s.c.d", "s.c.e", "s.c.f">>
         /\ EqualsTenths(Get(missingness_dict, "s.a"), 0)
         /\ EqualsTenths(Get(missingness_dict, "s.b"), 2)
         /\ EqualsTenths(Get(missingness_dict, "s.c.d"), 6)
         /\ EqualsTenths(Get(missingness_dict, "s.c.e"), 4)
         /\ EqualsTenths(Get(missingness_dict, "s.c.f"), 6)

\* C10 witness: the five-row fixture has been walked, aggregated and
\* flattened with the prefix s, and its array leaf counts as missing in
\* three rows.
C10_Witness ==
  /\ mpc = "flat"
  /\ ht_s = Fixture
  /\ prefix = "s"
  /\ Len(missingness_dict) = 5
  /\ Get(missingness_dict, "s.c.d") = <<3, 5>>

(* ---------- unfurl_array_annotations, check_array_struct_missingness ---- *)

\* Largest number of rows of a generated table with arrays of structs.
MaxUnfurlRows == 1

\* The result of indexing an array past its end: the engine raises when the
\* expression is evaluated.
OutOfBounds == -2

\* An array of structs on a row: missing, or its elements; an element is
\* missing, or the values of its subfields (NoneInt a missing value).
ArrNA == [na |-> TRUE, elems |-> <<>>]
Arr(elems) == [na |-> FALSE, elems |-> elems]
ElemNA == [na |-> TRUE, vals |-> <<>>]
Elem(vals) == [na |-> FALSE, vals |-> vals]

\* A table: its row fields, the subfields of each array of structs, its
\* globals (index dictionaries) and, per row, the value of each array.
UTable(row_fields, schema, globals, rows) ==
  [row_fields |-> row_fields, schema |-> schema, globals |-> globals,
   rows |-> rows]

\* ht_for_check_array_struct_missingness: four rows of freq (AF in
\* hundredths), freq_index_dict = {"adj": 0, "raw": 1}, and the unfurled
\* fields annotated on the rows.
UnfurlFixtureRows ==
  <<[freq |-> Arr(<<Elem(<<5, 10, 20, 3>>), Elem(<<10, 5, 5, NoneInt>>)>>)],
    [freq |-> Arr(<<Elem(<<6, 8, NoneInt, 4>>), Elem(<<8, 50, NoneInt, NoneInt>>)>>)],
    [freq |-> Arr(<<Elem(<<65, 18, NoneInt, 2>>), Elem(<<88, 20, NoneInt, NoneInt>>)>>)],
    [freq |-> Arr(<<Elem(<<8, 8, 16, 2>>), ElemNA>>)]>>

UnfurlFixtureFlat ==
  {"AC_adj", "AF_adj", "AN_eas_adj", "AN_sas_adj",
   "AC_raw", "AF_raw", "AN_eas_raw", "AN_sas_raw"}

UnfurlFixture ==
  UTable({"idx", "freq"} \cup UnfurlFixtureFlat,
         <<Item("freq", <<"AC", "AF", "AN_eas", "AN_sas">>)>>,
         <<Item("freq_index_dict", <<Item("adj", 0), Item("raw", 1)>>)>>,
         UnfurlFixtureRows)

\* The generated tables: freq with two subfields and faf with one, each
\* with or without its index dictionary, faf possibly not a row field.
FreqElems == {ElemNA, Elem(<<1, 2>>), Elem(<<3, NoneInt>>)}
FreqArrays ==
  {ArrNA, Arr(<<Elem(<<1, 2>>)>>)}
  \cup {Arr(<<a, b>>) : a \in FreqElems, b \in FreqElems}
FafArrays == {ArrNA, Arr(<<ElemNA>>), Arr(<<Elem(<<5>>)>>)}

FreqSubfields == {<<"AC", "AN">>, <<"AN", "AN_eas">>}
FafSubfields == {<<"faf95">>, <<"AC">>}
FreqIndexDicts ==
  {<<Item("adj", 0), Item("raw", 1)>>, <<Item("adj", 0), Item("eas_adj", 1)>>}
FafIndexDict == <<Item("adj", 0)>>

GeneratedUTables ==
  {UTable({"idx", "freq"} \cup (IF has_faf THEN {"faf"} ELSE {}),
          <<Item("freq", fs), Item("faf", ffs)>>,
          <<Item("freq_index_dict", fd)>>
            \o (IF has_faf_dict THEN <<Item("faf_index_dict", FafIndexDict)>>
                ELSE <<>>),
          rows) :
     has_faf \in BOOLEAN, has_faf_dict \in BOOLEAN,
     fs \in FreqSubfields, ffs \in FafSubfields, fd \in FreqIndexDicts,
     rows \in UNION {[1..n -> [freq : FreqArrays, faf : FafArrays]] :
                       n \in 1..MaxUnfurlRows}}

\* The mappings indexed_array_annotations a caller passes, in insertion
\* order (the last is the default of check_array_struct_missingness).
ArrayAnnotationMappings ==
  {<<Item("freq", "freq_index_dict")>>,
   <<Item("freq", "freq_index_dict"), Item("faf", "faf_index_dict")>>,
   <<Item("faf", "faf_index_dict"), Item("freq", "freq_index_dict")>>}

\* The expression ht[array][i][f].
IndexExprZero(array, i, f) == [array |-> array, i |-> 0, f |-> f]
IndexExpr(array, i, f) == [array |-> array, i |-> i, f |-> f]

\* Its value on a row: missing if the array or the element is missing.
EvalIndexExpr(ht, row, x) ==
  LET a == row[x.array]
      subfields == Get(ht.schema, x.array)
  IN IF a.na THEN NoneInt
     ELSE IF x.i + 1 > Len(a.elems) THEN OutOfBounds
     ELSE IF a.elems[x.i + 1].na THEN NoneInt
     ELSE a.elems[x.i + 1].vals[IndexOf(subfields, x.f)]

\* Lines 1297-1299: the entries of one array, added to expr_dict.
RECURSIVE UnfurlSubfields(_, _, _, _, _)
UnfurlSubfields(expr_dict, array, k, i, subfields) ==
  IF subfields = <<>> THEN expr_dict
  ELSE UnfurlSubfields(DictSet(expr_dict, Head(subfields) \o "_" \o k,
                               IndexExpr(array, i, Head(subfields))),
                       array, k, i, Tail(subfields))

RECURSIVE UnfurlKeys(_, _, _, _)
UnfurlKeys(expr_dict, array, array_index_dict, subfields) ==
  IF array_index_dict = <<>> THEN expr_dict
  ELSE UnfurlKeys(UnfurlSubfields(expr_dict, array, Head(array_index_dict).name,
                                  Head(array_index_dict).values, subfields),
                  array, Tail(array_index_dict), subfields)

\* Lines 1283-1291: the guards of one array.
ArrayNotFound(ht, array) == array \notin ht.row_fields
IndexDictNotFoundNever(ht, array_index_dict) == FALSE
IndexDictNotFound(ht, array_index_dict) == ~HasKey(ht.globals, array_index_dict)

\* Lines 1279-1299: the loop over the mapping; an error leaves the loop
\* with the dictionary built so far.
RECURSIVE UnfurlLoop(_, _, _)
UnfurlLoop(ht, items, expr_dict) ==
  IF items = <<>> THEN [raised |-> "", expr_dict |-> expr_dict]
  ELSE LET array == Head(items).name
           array_index_dict == Head(items).values
       IN IF ArrayNotFound(ht, array)
          THEN [raised |-> "ValueError", expr_dict |-> expr_dict]
          ELSE IF IndexDictNotFound(ht, array_index_dict)
          THEN [raised |-> "ValueError", expr_dict |-> expr_dict]
          \* hl.eval(ht[array_index_dict]) of a name that is no field
          ELSE IF ~HasKey(ht.globals, array_index_dict)
          THEN [raised |-> "LookupError", expr_dict |-> expr_dict]
          ELSE UnfurlLoop(ht, Tail(items),
                          UnfurlKeys(expr_dict, array,
                                     Get(ht.globals, array_index_dict),
                                     Get(ht.schema, array)))

\* The whole call: the dictionary it returns, or the error it raises (and
\* then nothing is returned).
UnfurlArrayAnnotations(ht, iaa) ==
  LET r == UnfurlLoop(ht, iaa, <<>>)
  IN [raised |-> r.raised,
      result |-> IF r.raised = "" THEN r.expr_dict ELSE <<>>]

\* hl.agg.fraction(hl.is_missing(ht[field_name])) over the rows, the flat
\* field holding the value of its expression.
FlatMissingness(ht, x) ==
  IF Len(ht.rows) = 0 THEN NoFraction
  ELSE <<Cardinality({r \in 1..Len(ht.rows) :
                        EvalIndexExpr(ht, ht.rows[r], x) = NoneInt}),
         Len(ht.rows)>>

\* check_array_struct_missingness: unfurl, then one fraction per flat field
\* of the table; ht[field_name] fails for a name that is not a row field.
CheckArrayStructMissingness(ht, iaa) ==
  LET annotations == UnfurlArrayAnnotations(ht, iaa)
  IN IF annotations.raised # "" THEN annotations
     ELSE IF ~(Range(Keys(annotations.result)) \subseteq ht.row_fields)
     THEN [raised |-> "LookupError", result |-> <<>>]
     ELSE [raised |-> "",
           result |-> [k \in 1..Len(annotations.result) |->
                         Item(annotations.result[k].name,
                              FlatMissingness(ht, annotations.result[k].values))]]

(* ------------------------- unfurling: steps ---------------------------- *)

InitUnfurl ==
  /\ uht \in {UnfurlFixture} \cup GeneratedUTables
  /\ indexed_array_annotations \in
       {m \in ArrayAnnotationMappings :
          \A k \in 1..Len(m) : HasKey(uht.schema, m[k].name)}
  /\ ucall = ""
  /\ uresult = <<>>
  /\ upc = "ready"
  /\ OthersIdle("unfurl")

\* A caller invokes unfurl_array_annotations.
CallUnfurlArrayAnnotations ==
  /\ upc = "ready"
  /\ LET r == UnfurlArrayAnnotations(uht, indexed_array_annotations)
     IN /\ uresult' = r.result
        /\ upc' = IF r.raised = "" THEN "returned" ELSE r.raised
  /\ ucall' = "unfurl_array_annotations"
  /\ UNCHANGED <<uht, indexed_array_annotations>>
  /\ UNCHANGED nonUnfurlVars

\* A caller invokes check_array_struct_missingness.
CallCheckArrayStructMissingness ==
  /\ upc = "ready"
  /\ LET r == CheckArrayStructMissingness(uht, indexed_array_annotations)
     IN /\ uresult' = r.result
        /\ upc' = IF r.raised = "" THEN "returned" ELSE r.raised
  /\ ucall' = "check_array_struct_missingness"
  /\ UNCHANGED <<uht, indexed_array_annotations>>
  /\ UNCHANGED nonUnfurlVars

NextUnfurl ==
  \/ CallUnfurlArrayAnnotations
  \/ CallCheckArrayStructMissingness

SpecUnfurl == InitUnfurl /\ [][NextUnfurl]_vars

(* ----------------------- properties of unfurling ----------------------- *)

\* The (array, dictionary key, index, subfield) requests of a mapping, in
\* the order of the mapping, of each index dictionary and of the subfields.
RECURSIVE Requests(_, _)
Requests(ht, iaa) ==
  IF iaa = <<>> THEN <<>>
  ELSE LET array == Head(iaa).name
           d == Get(ht.globals, Head(iaa).values)
           fs == Get(ht.schema, array)
       IN [n \in 1..(Len(d) * Len(fs)) |->
             [array |-> array,
              k |-> d[((n - 1) \div Len(fs)) + 1].name,
              i |-> d[((n - 1) \div Len(fs)) + 1].values,
              f |-> fs[((n - 1) % Len(fs)) + 1]]]
          \o Requests(ht, Tail(iaa))

UnfurledName(t) == t.f \o "_" \o t.k

\* The array has an element at the index on the row (or is missing).
HasElementAt(row, t) ==
  row[t.array].na \/ t.i + 1 <= Len(row[t.array].elems)

\* The array element at the index is absent on the row.
ElementAbsent(row, t) ==
  row[t.array].na \/ row[t.array].elems[t.i + 1].na

\* The subfield of the array element at the index.
SubfieldAt(ht, row, t) ==
  IF ElementAbsent(row, t) THEN NoneInt
  ELSE row[t.array].elems[t.i + 1].vals[IndexOf(Get(ht.schema, t.array), t.f)]

UnfurlReturned == upc = "returned" /\ ucall = "unfurl_array_annotations"

UnfurledEntries(name) == {e \in 1..Len(uresult) : uresult[e].name = name}

\* The entry named after request t holds, on every row with an element at
\* the index, the subfield of that element (missing if the element is
\* absent).
EntryHolds(t, name) ==
  /\ Cardinality(UnfurledEntries(name)) = 1
  /\ \A e \in UnfurledEntries(name) :
       \A r \in 1..Len(uht.rows) :
         HasElementAt(uht.rows[r], t) =>
           /\ EvalIndexExpr(uht, uht.rows[r], uresult[e].values)
                = SubfieldAt(uht, uht.rows[r], t)
           /\ ElementAbsent(uht.rows[r], t) =>
                EvalIndexExpr(uht, uht.rows[r], uresult[e].values) = NoneInt

SomeAnnotationAbsent ==
  \E n \in 1..Len(indexed_array_annotations) :
    \/ indexed_array_annotations[n].name \notin uht.row_fields
    \/ ~HasKey(uht.globals, indexed_array_annotations[n].values)

\* C12: when an array of the mapping is not a row field or its index
\* dictionary is not a global field, unfurl_array_annotations and
\* check_array_struct_missingness raise ValueError and return nothing,
\* whatever the position of the array in the mapping; otherwise
\* unfurl_array_annotations returns.
C12_UnfurlFailsFast ==
  upc # "ready" =>
    /\ SomeAnnotationAbsent => upc = "ValueError" /\ uresult = <<>>
    /\ (~SomeAnnotationAbsent /\ ucall = "unfurl_array_annotations") =>
         upc = "returned"
    /\ upc # "returned" => uresult = <<>>

\* C12 witness: the first array of the mapping is valid and has elements,
\* the index dictionary of the second is not a global field, and the call
\* raised.
C12_Witness ==
  /\ upc = "ValueError"
  /\ uresult = <<>>
  /\ Len(indexed_array_annotations) = 2
  /\ indexed_array_annotations[1].name = "freq"
  /\ "faf" \in uht.row_fields
  /\ ~HasKey(uht.globals, "faf_index_dict")
  /\ ~uht.rows[1]["freq"].na

(* -------------------- compute_and_check_summations --------------------- *)

\* Largest number of rows of a generated table of counts.
MaxSumRows == 2

\* A table of integer fields; NoneInt is a missing value.
STable(fields, vals) ==
  [fields |-> fields,
   rows |-> [r \in 1..Len(vals) |-> [f \in fields |-> vals[r][f]]]]

\* ht_for_compute_and_check_summations and the request of its test.
SumFixture ==
  STable({"AC_afr_adj", "AC_amr_adj", "AC_adj",
          "AN_afr_XX_adj", "AN_afr_XY_adj", "AN_adj"},
         <<[AC_afr_adj |-> 5, AC_amr_adj |-> 10, AC_adj |-> 15,
            AN_afr_XX_adj |-> 20, AN_afr_XY_adj |-> 30, AN_adj |-> 50],
           [AC_afr_adj |-> 3, AC_amr_adj |-> 7, AC_adj |-> 10,
            AN_afr_XX_adj |-> 15, AN_afr_XY_adj |-> 25, AN_adj |-> 40],
           [AC_afr_adj |-> 2, AC_amr_adj |-> 3, AC_adj |-> 6,
            AN_afr_XX_adj |-> 10, AN_afr_XY_adj |-> 20, AN_adj |-> 35]>>)

Group(values_to_sum, expected_total) ==
  [values_to_sum |-> values_to_sum, expected_total |-> expected_total]

SumFixtureGroups ==
  <<Item("AC_group_adj_gen_anc",
         Group(<<"AC_afr_adj", "AC_amr_adj">>, "AC_adj")),
    Item("AN_group_adj_gen_anc_sex",
         Group(<<"AN_afr_XX_adj", "AN_afr_XY_adj">>, "AN_adj"))>>

\* The generated tables: three count fields, one of them possibly not a
\* field of the table; each row has one of the patterns below (the sum
\* equal to the total, different from it, or a value missing).
SumFieldSets ==
  {{"AC_afr_adj", "AC_amr_adj", "AC_adj"}, {"AC_afr_adj", "AC_adj"}}

SumRow(afr, amr, total) ==
  [AC_afr_adj |-> afr, AC_amr_adj |-> amr, AC_adj |-> total]

SumRowPatterns ==
  {SumRow(0, 0, 0), SumRow(1, 0, 1), SumRow(1, 1, 2), SumRow(1, 1, 1),
   SumRow(0, 1, 0), SumRow(0, 0, 1), SumRow(NoneInt, 1, 1),
   SumRow(1, NoneInt, 1), SumRow(1, NoneInt, 0), SumRow(1, 0, NoneInt),
   SumRow(NoneInt, NoneInt, NoneInt)}

GeneratedSTables ==
  UNION {{STable(fields, vals) :
            vals \in UNION {[1..n -> SumRowPatterns] : n \in 1..MaxSumRows}} :
           fields \in SumFieldSets}

\* The requests on a generated table: one or two groups, in either order;
\* AC_sas_adj is never a field of the table.
GroupPop ==
  Item("AC_group_adj_gen_anc", Group(<<"AC_afr_adj", "AC_amr_adj">>, "AC_adj"))
GroupOther ==
  Item("AC_group_other", Group(<<"AC_sas_adj", "AC_adj">>, "AC_afr_adj"))
GroupNone ==
  Item("AC_group_none", Group(<<"AC_sas_adj">>, "AC_adj"))

GeneratedGroups ==
  {<<GroupPop>>, <<GroupOther>>, <<GroupNone>>, <<GroupPop, GroupOther>>,
   <<GroupOther, GroupPop>>, <<GroupNone, GroupPop>>}

\* a + b on values that may be missing.
Plus(a, b) == IF a = NoneInt \/ b = NoneInt THEN NoneInt ELSE a + b

\* a != b: missing if either value is.
NotEqualOrMissing(a, b) ==
  IF a = NoneInt /\ b = NoneInt THEN "F"
  ELSE IF a = NoneInt \/ b = NoneInt THEN "T"
  ELSE IF a # b THEN "T" ELSE "F"
NotEqual(a, b) ==
  IF a = NoneInt \/ b = NoneInt THEN "M" ELSE IF a # b THEN "T" ELSE "F"

\* The guard of the generator of line 1380.
FieldInRow(ht, field) == field \in ht.fields

\* sum(ht[field] for field in values_to_sum if field in ht.row), from 0.
RECURSIVE SumOf(_, _, _)
SumOf(ht, row, values_to_sum) ==
  IF values_to_sum = <<>> THEN 0
  ELSE LET n == Len(values_to_sum)
           rest == SumOf(ht, row, SubSeq(values_to_sum, 1, n - 1))
       IN IF FieldInRow(ht, values_to_sum[n])
          THEN Plus(rest, row[values_to_sum[n]])
          ELSE rest

\* ht.annotate(**summations): the fields of the groups added to (or
\* replacing those of) each row.
AnnotateSummations(ht, groups) ==
  LET names == Range(Keys(groups))
      fs == ht.fields \cup names
  IN [fields |-> fs,
      rows |-> [r \in 1..Len(ht.rows) |->
                  [f \in fs |->
                     IF f \in names
                     THEN SumOf(ht, ht.rows[r], Get(groups, f).values_to_sum)
                     ELSE ht.rows[r][f]]]]

\* hl.agg.count_where(ht[group_name] != ht[expected_total])
MismatchedCount(ht, group_name, expected_total) ==
  Cardinality({r \in 1..Len(ht.rows) :
                 NotEqual(ht.rows[r][group_name], ht.rows[r][expected_total])
                   = "T"})

\* The whole call: the struct of counts, one per group in the order of the
\* request; ht[expected_total] fails for a name that is not a field.
ComputeAndCheckSummations(ht, groups) ==
  LET ht2 == AnnotateSummations(ht, groups)
  IN IF \E k \in 1..Len(groups) : groups[k].values.expected_total \notin ht2.fields
     THEN [raised |-> "LookupError", result |-> <<>>]
     ELSE [raised |-> "",
           result |-> [k \in 1..Len(groups) |->
                         Item(groups[k].name,
                              MismatchedCount(ht2, groups[k].name,
                                              groups[k].values.expected_total))]]

(* ----------------- compute_and_check_summations: steps ----------------- *)

InitSum ==
  /\ \/ /\ sht = SumFixture
        /\ comparison_groups \in
             {SumFixtureGroups, <<SumFixtureGroups[1]>>, <<SumFixtureGroups[2]>>}
     \/ /\ sht \in GeneratedSTables
        /\ comparison_groups \in GeneratedGroups
  /\ sresult = <<>>
  /\ spc = "ready"
  /\ OthersIdle("sum")

\* A caller invokes compute_and_check_summations.
CallComputeAndCheckSummations ==
  /\ spc = "ready"
  /\ LET r == ComputeAndCheckSummations(sht, comparison_groups)
     IN /\ sresult' = r.result
        /\ spc' = IF r.raised = "" THEN "returned" ELSE r.raised
  /\ UNCHANGED <<sht, comparison_groups>>
  /\ UNCHANGED nonSumVars

NextSum == CallComputeAndCheckSummations

SpecSum == InitSum /\ [][NextSum]_vars

(* -------------- properties of compute_and_check_summations ------------- *)

\* The listed fields of a group that are fields of the table.
ExistingFields(group) ==
  {group.values_to_sum[k] : k \in 1..Len(group.values_to_sum)} \cap sht.fields

\* Every existing listed field and the expected total are defined on the row.
AllDefined(row, group) ==
  /\ \A f \in ExistingFields(group) : row[f] # NoneInt
  /\ row[group.expected_total] # NoneInt

\* The sum of the defined values of a set of fields.
RECURSIVE Total(_, _)
Total(row, fs) ==
  IF fs = {} THEN 0
  ELSE LET f == CHOOSE g \in fs : TRUE IN row[f] + Total(row, fs \ {f})

\* The rows on which the sum of the existing listed fields differs from the
\* expected total.
MismatchRows(group) ==
  {r \in 1..Len(sht.rows) :
     /\ AllDefined(sht.rows[r], group)
     /\ Total(sht.rows[r], ExistingFields(group))
          # sht.rows[r][group.expected_total]}

RECURSIVE LoopReports(_, _, _, _, _, _, _, _, _)
LoopReports(tbls, ht, field_check_expr, counts, k, verbose, show_percent_sites, ht_count, events) ==
  IF k > Len(counts) THEN [events |-> events, tables |-> tbls, raised |-> FALSE]
  ELSE LET v == Lookup(field_check_expr, counts[k].desc)
           r == GenericFieldCheck(tbls, ht, counts[k].desc, v.display_fields,
                                  v.expr, verbose, show_percent_sites,
                                  counts[k].n, ht_count)
       IN IF r.raised
          THEN [events |-> events \o r.events, tables |-> r.tables,
                raised |-> TRUE]
          ELSE LoopReports(r.tables, ht, field_check_expr, counts, k + 1,
                           verbose, show_percent_sites, ht_count,
                           events \o r.events)

\* generic_field_check_loop: the aggregation, then the reports.
GenericFieldCheckLoop(tbls, ht, field_check_expr, verbose, show_percent_sites, ht_count) ==
  LoopReports(tbls, ht, field_check_expr,
              StructItems(field_check_expr, tbls[ht].rows), 1, verbose,
              show_percent_sites, ht_count,
              <<Ev("aggregate", None, Len(field_check_expr), 0, NoTable)>>)

(* ------------------------ check_sex_chr_metrics ------------------------ *)

\* Largest number of rows of a generated table with sex-specific metrics.
MaxSexRows == 2

\* The name of a metric: its parts joined by the delimiter of the table.
Metric(parts, d) == [parts |-> parts, d |-> d]
MetricName(m) == Join(m.parts, m.d)

\* f"{delimiter}XX" in x: a part XX after a delimiter that is the one asked
\* for.
ContainsXX(m, delimiter) ==
  /\ m.d = delimiter
  /\ \E k \in 2..Len(m.parts) : m.parts[k] = "XX"

\* "nhomalt" in x
ContainsNhomalt(m) == \E k \in 1..Len(m.parts) : m.parts[k] = "nhomalt"

\* metric.replace(f"{delimiter}XX", "")
ReplaceXX(m, delimiter) ==
  IF m.d # delimiter THEN m
  ELSE LET ks == {k \in 1..Len(m.parts) : k = 1 \/ m.parts[k] # "XX"}
           Kept(k) == k \in ks
           idxs == SelectSeq([k \in 1..Len(m.parts) |-> k], Kept)
       IN Metric([j \in 1..Len(idxs) |-> m.parts[idxs[j]]], m.d)

\* A row: its contig, whether its locus is outside the pseudo-autosomal
\* region of chrX (locus.in_x_nonpar()), and its info struct.
SexRow(contig, nonpar, info) == [contig |-> contig, nonpar |-> nonpar, info |-> info]

\* ht_for_check_sex_chr_metrics: chrX:9000 lies before the
\* pseudo-autosomal region, chrX:1000000 inside it.
SexFixtureMetrics ==
  <<Metric(<<"nhomalt">>, "_"), Metric(<<"nhomalt", "XX">>, "_"),
    Metric(<<"nhomalt", "amr">>, "_"), Metric(<<"nhomalt", "amr", "XX">>, "_"),
    Metric(<<"AC">>, "_"), Metric(<<"AC", "XX">>, "_")>>

SexFixtureRows ==
  <<SexRow("chrX", TRUE,
           [nhomalt |-> 3, nhomalt_XX |-> 2, nhomalt_amr |-> 5,
            nhomalt_amr_XX |-> 1, AC |-> 6, AC_XX |-> 6]),
    SexRow("chrX", FALSE,
           [nhomalt |-> 5, nhomalt_XX |-> 5, nhomalt_amr |-> 5,
            nhomalt_amr_XX |-> 5, AC |-> 10, AC_XX |-> 10]),
    SexRow("chrY", FALSE,
           [nhomalt |-> 5, nhomalt_XX |-> NoneInt, nhomalt_amr |-> NoneInt,
            nhomalt_amr_XX |-> NoneInt, AC |-> 6, AC_XX |-> NoneInt]),
    SexRow("chrY", FALSE,
           [nhomalt |-> 5, nhomalt_XX |-> 3, nhomalt_amr |-> NoneInt,
            nhomalt_amr_XX |-> NoneInt, AC |-> 6, AC_XX |-> NoneInt])>>

SexFixture == [metrics |-> SexFixtureMetrics, rows |-> SexFixtureRows]

\* The generated tables: three metrics, each row one of the patterns below.
SexMetrics ==
  <<Metric(<<"nhomalt">>, "_"), Metric(<<"nhomalt", "XX">>, "_"),
    Metric(<<"AC", "XX">>, "_")>>

SexInfo(nhomalt, nhomalt_XX, AC_XX) ==
  [nhomalt |-> nhomalt, nhomalt_XX |-> nhomalt_XX, AC_XX |-> AC_XX]

SexRowPatterns ==
  {SexRow("chrX", TRUE, SexInfo(1, 1, 1)),
   SexRow("chrX", TRUE, SexInfo(1, 0, 1)),
   SexRow("chrX", TRUE, SexInfo(1, NoneInt, NoneInt)),
   SexRow("chrX", TRUE, SexInfo(NoneInt, 1, 1)),
   SexRow("chrX", FALSE, SexInfo(1, 0, 1)),
   SexRow("chrY", FALSE, SexInfo(1, NoneInt, NoneInt)),
   SexRow("chrY", FALSE, SexInfo(1, 0, NoneInt)),
   SexRow("chrY", FALSE, SexInfo(1, NoneInt, 1)),
   SexRow("chr1", FALSE, SexInfo(1, 0, 1))}

GeneratedSexTables ==
  {[metrics |-> SexMetrics, rows |-> rows] :
     rows \in UNION {[1..n -> SexRowPatterns] : n \in 0..MaxSexRows}}

\* hl.filter_intervals(t, [hl.parse_locus_interval(contig)])
FilterIntervalsAll(rows, contig) == rows
FilterIntervals(rows, contig) ==
  LET On(r) == r.contig = contig IN SelectSeq(rows, On)

\* t_x.filter(t_x.locus.in_x_nonpar())
FilterNonParAll(rows) == rows
FilterNonPar(rows) == LET NonPar(r) == r.nonpar IN SelectSeq(rows, NonPar)

\* hl.agg.any(hl.is_defined(t_y.info[metric]))
AnyDefined(rows, name) == \E r \in 1..Len(rows) : rows[r].info[name] # NoneInt

\* hl.agg.filter(hl.is_defined(...), hl.agg.take(..., 1)): one of the
\* defined values, the first or the last the engine met.
TakeOne(rows, name, first) ==
  LET Defined(r) == r.info[name] # NoneInt
      defined == SelectSeq(rows, Defined)
  IN IF first THEN defined[1].info[name] ELSE defined[Len(defined)].info[name]

\* Lines 744-764: the results for the chrY rows, one per metric of
\* metrics_values.
RECURSIVE YResults(_, _, _)
YResults(t_y, names, first) ==
  IF names = <<>> THEN <<>>
  ELSE <<IF AnyDefined(t_y, Head(names))
         THEN Ev("y_failed", Head(names), TakeOne(t_y, Head(names), first), 0,
                 NoTable)
         ELSE Ev("y_passed", Head(names), 0, 0, NoTable)>>
       \o YResults(t_y, Tail(names), first)

\* The keys of a dictionary filled in the order of a list.
RECURSIVE DictKeys(_)
DictKeys(names) ==
  IF names = <<>> THEN <<>>
  ELSE LET n == Len(names)
           before == DictKeys(SubSeq(names, 1, n - 1))
       IN IF names[n] \in Range(before) THEN before ELSE Append(before, names[n])

\* Lines 774-789: the entry of one nhomalt XX metric.
XCheckDescription(m, delimiter) ==
  MetricName(m) \o " == " \o MetricName(ReplaceXX(m, delimiter))

XEntry(m, delimiter) ==
  [desc |-> XCheckDescription(m, delimiter),
   expr |-> XCheckDescription(m, delimiter),
   agg_func |-> "count_where",
   display_fields |-> {MetricName(m), MetricName(ReplaceXX(m, delimiter))}]

\* The table t_xnonpar with, per entry, the column of its predicate
\* info[metric] != info[standard_field].
XNonParTable(rows, metrics, xx_nhomalt, delimiter) ==
  LET names == {MetricName(metrics[k]) : k \in 1..Len(metrics)}
      descs == {XCheckDescription(xx_nhomalt[k], delimiter) :
                  k \in 1..Len(xx_nhomalt)}
      Of(desc) == CHOOSE k \in 1..Len(xx_nhomalt) :
                    XCheckDescription(xx_nhomalt[k], delimiter) = desc
      fs == {"idx"} \cup names \cup descs
  IN [fields |-> fs,
      rows |-> [r \in 1..Len(rows) |->
                  [f \in fs |->
                     IF f = "idx" THEN r
                     ELSE IF f \in names THEN rows[r].info[f]
                     ELSE NotEqual(
                            rows[r].info[MetricName(xx_nhomalt[Of(f)])],
                            rows[r].info[MetricName(ReplaceXX(xx_nhomalt[Of(f)],
                                                              delimiter))])]]]

\* The whole call: the lines it logs, the engine requests it makes and the
\* reports of generic_field_check_loop.
CheckSexChrMetrics(t, info_metrics, contigs, verbose, delimiter, first) ==
  LET IsXX(m) == ContainsXX(m, delimiter)
      xx_metrics == SelectSeq(info_metrics, IsXX)
      t_y == FilterIntervals(t.rows, "chrY")
      y == IF "chrY" \in Range(contigs)
           THEN <<Ev("y_header", None, 0, 0, NoTable)>>
                  \o YResults(t_y, DictKeys([k \in 1..Len(xx_metrics) |->
                                               MetricName(xx_metrics[k])]),
                              first)
           ELSE <<>>
      t_xnonpar == FilterNonPar(FilterIntervals(t.rows, "chrX"))
      IsNhomalt(m) == ContainsNhomalt(m)
      xx_nhomalt == SelectSeq(xx_metrics, IsNhomalt)
      field_check_expr == [k \in 1..Len(xx_nhomalt) |->
                             XEntry(xx_nhomalt[k], delimiter)]
      loop == GenericFieldCheckLoop(
                <<XNonParTable(t_xnonpar, t.metrics, xx_nhomalt, delimiter)>>,
                1, field_check_expr, verbose, FALSE, NoneInt)
  IN [events |-> y \o <<Ev("x_nonpar_sites", None, Len(t_xnonpar), 0, NoTable),
                        Ev("x_header", None, 0, 0, NoTable)>>
                   \o loop.events,
      raised |-> loop.raised]

(* --------------------- check_sex_chr_metrics: steps -------------------- *)

InitSex ==
  /\ xht \in {SexFixture} \cup GeneratedSexTables
  /\ xcall = <<>>
  /\ xlog = <<>>
  /\ xpc = "ready"
  /\ OthersIdle("sex")

\* A caller invokes check_sex_chr_metrics with the metrics of the table.
CallCheckSexChrMetrics ==
  /\ xpc = "ready"
  /\ \E contigs \in {<<"chrX", "chrY">>, <<"chrX">>, <<"chr1", "chrY">>},
        verbose \in BOOLEAN, delimiter \in {"_", "-"}, first \in BOOLEAN :
       LET r == CheckSexChrMetrics(xht, xht.metrics, contigs, verbose,
                                   delimiter, first)
       IN /\ xcall' = [info_metrics |-> xht.metrics, contigs |-> contigs,
                       verbose |-> verbose, delimiter |-> delimiter]
          /\ xlog' = r.events
          /\ xpc' = IF r.raised THEN "raised" ELSE "done"
  /\ UNCHANGED xht
  /\ UNCHANGED nonSexVars

NextSex == CallCheckSexChrMetrics

SpecSex == InitSex /\ [][NextSex]_vars

(* ------------------ properties of check_sex_chr_metrics ---------------- *)

\* The names of the metrics of the call that contain <delimiter>XX, and of
\* those that also contain nhomalt.
XXMetrics ==
  {xcall.info_metrics[k] : k \in
     {j \in 1..Len(xcall.info_metrics) :
        ContainsXX(xcall.info_metrics[j], xcall.delimiter)}}

XXNhomaltMetrics == {m \in XXMetrics : ContainsNhomalt(m)}

\* The results about the chrY rows, and the reports about the chrX rows.
YEvents(name) ==
  {k \in 1..Len(xlog) : xlog[k].op \in {"y_failed", "y_passed"}
                        /\ xlog[k].desc = name}
AllYEvents == {k \in 1..Len(xlog) : xlog[k].op \in {"y_failed", "y_passed"}}

XReports(desc) ==
  {k \in 1..Len(xlog) : xlog[k].op \in {"found", "passed"}
                        /\ xlog[k].desc = desc}
AllXReports == {k \in 1..Len(xlog) : xlog[k].op \in {"found", "passed"}}

\* The values of a metric on the chrY rows of the table.
DefinedOnY(name) ==
  {xht.rows[r].info[name] : r \in {j \in 1..Len(xht.rows) :
                                     /\ xht.rows[j].contig = "chrY"
                                     /\ xht.rows[j].info[name] # NoneInt}}

\* C14: with chrY among the contigs there is exactly one result per metric
\* whose name contains <delimiter>XX: FAILED with a value found on a chrY
\* row iff the metric is defined on some chrY row, PASSED iff it is
\* undefined on all of them, whatever the rows of other chromosomes hold;
\* without chrY among the contigs there is no such result.
C14_YCheck ==
  xpc = "done" =>
    IF "chrY" \in Range(xcall.contigs)
    THEN /\ Cardinality(AllYEvents) = Cardinality(XXMetrics)
         /\ \A m \in XXMetrics :
              /\ Cardinality(YEvents(MetricName(m))) = 1
              /\ \A k \in YEvents(MetricName(m)) :
                   /\ xlog[k].op = "y_failed" <=> DefinedOnY(MetricName(m)) # {}
                   /\ xlog[k].op = "y_passed" <=> DefinedOnY(MetricName(m)) = {}
                   /\ xlog[k].op = "y_failed" =>
                        xlog[k].n \in DefinedOnY(MetricName(m))
    ELSE AllYEvents = {}

\* C14 witness: on the fixture nhomalt_XX fails with the value 3 found and
\* nhomalt_amr_XX and AC_XX pass.
C14_Witness ==
  /\ xpc = "done"
  /\ xht = SexFixture
  /\ \E k \in YEvents("nhomalt_XX") : xlog[k].op = "y_failed" /\ xlog[k].n = 3
  /\ \E k \in YEvents("nhomalt_amr_XX") : xlog[k].op = "y_passed"
  /\ \E k \in YEvents("AC_XX") : xlog[k].op = "y_passed"

\* The rows on chrX outside the pseudo-autosomal region on which the XX
\* homozygote count and the sex-agnostic one are both defined and differ.
XMismatchRows(m) ==
  {r \in 1..Len(xht.rows) :
     /\ xht.rows[r].contig = "chrX"
     /\ xht.rows[r].nonpar
     /\ xht.rows[r].info[MetricName(m)] # NoneInt
     /\ xht.rows[r].info[MetricName(ReplaceXX(m, xcall.delimiter))] # NoneInt
     /\ xht.rows[r].info[MetricName(m)]
          # xht.rows[r].info[MetricName(ReplaceXX(m, xcall.delimiter))]}

\* C15: there is exactly one report per metric whose name contains nhomalt
\* and <delimiter>XX; it is a failure with the number of the rows on chrX
\* outside the pseudo-autosomal region on which the metric differs from the
\* field named without <delimiter>XX, and a pass when there is no such row;
\* rows in the pseudo-autosomal region or on other chromosomes are not
\* counted.
C15_XCheck ==
  xpc = "done" =>
    /\ Cardinality(AllXReports) = Cardinality(XXNhomaltMetrics)
    /\ \A m \in XXNhomaltMetrics :
         LET desc == XCheckDescription(m, xcall.delimiter)
             n == Cardinality(XMismatchRows(m))
         IN /\ Cardinality(XReports(desc)) = 1
            /\ \A k \in XReports(desc) :
                 /\ xlog[k].n = n
                 /\ xlog[k].op = (IF n > 0 THEN "found" ELSE "passed")

\* C15 witness: on the fixture one site fails nhomalt_XX == nhomalt, the
\* row of chrX that lies outside the pseudo-autosomal region.
C15_Witness ==
  /\ xpc = "done"
  /\ xht = SexFixture
  /\ \E k \in XReports("nhomalt_XX == nhomalt") :
       xlog[k].op = "found" /\ xlog[k].n = 1
  /\ \E k \in 1..Len(xlog) : xlog[k].op = "x_nonpar_sites" /\ xlog[k].n = 1

(* --------------------------- validate_release_t ------------------------ *)

\* Largest number of rows of a dataset handed to validate_release_t.
MaxValRows == 2

\* The check families in the order of their calls (lines 1052-1122).
Stages ==
  <<"pprint_global_anns", "check_global_and_row_annot_lengths",
    "summarize_variants", "summarize_variant_filters",
    "check_raw_and_adj_callstats", "compare_subset_freqs",
    "sum_group_callstats", "check_sex_chr_metrics", "compute_missingness">>

\* The argument that guards the call of each check family.
StageFlags ==
  <<"pprint_globals", "row_to_globals_check", "summarize_variants_check",
    "filters_check", "raw_adj_check", "subset_freq_check",
    "samples_sum_check", "sex_chr_check", "missingness_check">>

\* The families that hand their checks to generic_field_check_loop.
LoopStages ==
  {"check_raw_and_adj_callstats", "compare_subset_freqs",
   "sum_group_callstats", "check_sex_chr_metrics"}

\* "if pprint_globals:", "if row_to_globals_check is not None:", ...: the
\* guard of the k-th call (row_to_globals_check is TRUE when it is given).
StageEnabledAlways(vc, k) == TRUE
StageEnabled(vc, k) == vc[StageFlags[k]]

\* The rows of a dataset: column p is the failure predicate of the checks
\* of a family and the metric whose missingness is computed, column q is
\* true on the rows whose array length differs from the global's.
ValRows(n, pv, qv) ==
  [k \in 1..n |-> [f \in {"idx"} \cup Exprs |->
                     IF f = "idx" THEN k ELSE IF f = "p" THEN pv ELSE qv]]

\* A dataset: its rows, and the families one of whose referenced
\* annotations the dataset lacks.
ValTable(rows, absent) ==
  [fields |-> {"idx"} \cup Exprs, rows |-> rows, absent |-> absent]

\* Datasets on which every check fails on every row (from no row to
\* MaxValRows rows), and one on which every check passes and the metric
\* is missing on one row of two; the dataset has every annotation, or
\* lacks one that the length check, the subset comparison or the sex
\* chromosome check refers to.
ValTables ==
  {ValTable(rows, absent) :
     rows \in {ValRows(n, "T", "T") : n \in 0..MaxValRows}
                \cup {ValRows(1, "M", "F") \o
                        <<[idx |-> 2, p |-> "F", q |-> "F"]>>},
     absent \in {{}, {"check_global_and_row_annot_lengths"},
                 {"compare_subset_freqs"}, {"check_sex_chr_metrics"}}}

\* The calls: every combination of the nine guards, show_percent_sites,
\* and a missingness threshold in tenths.
ValCalls ==
  {[f \in Range(StageFlags) \cup {"show_percent_sites", "missingness_threshold"} |->
      IF f = "show_percent_sites" THEN sp
      ELSE IF f = "missingness_threshold" THEN 5
      ELSE flags[f]] :
     flags \in [Range(StageFlags) -> BOOLEAN], sp \in BOOLEAN}

\* The checks a family registers: one entry on the predicate p.
StageChecks == <<Entry("d1", "p")>>

\* The family's name on each of its events.
Tag(stage, events) ==
  [k \in 1..Len(events) |-> [stage |-> stage, ev |-> events[k]]]

\* A family that hands its checks to generic_field_check_loop: only
\* compare_subset_freqs passes show_percent_sites on (line 443); none
\* passes ht_count; verbose keeps its default.
LoopStage(tv, stage, show_percent_sites) ==
  LET sp == stage = "compare_subset_freqs" /\ show_percent_sites
      Outcome(r) ==
        [events |-> r.events,
         raised |-> IF r.raised THEN r.events[Len(r.events)].op ELSE ""]
  IN CHOOSE o \in {Outcome(r) :
                     r \in {GenericFieldCheckLoop(
                              <<[fields |-> tv.fields, rows |-> tv.rows]>>,
                              CallerHandle, StageChecks, FALSE, sp, NoneInt)}} :
       TRUE

\* hl.agg.sum(hl.is_missing(t[x]))
NMissing(rows, x) ==
  Cardinality({k \in 1..Len(rows) : rows[k][x] = "M"})

\* "n_missing / n_sites > missingness_threshold" (line 828), the threshold
\* in tenths: the division by n_sites = 0 raises.
DivisionRaisesNever(n_sites) == FALSE
DivisionRaises(n_sites) == n_sites = 0

FailsThreshold(n_missing, n_sites, threshold) ==
  n_missing * 10 > threshold * n_sites

\* compute_missingness, lines 812-844: one result per metric, then the
\* tally; the first division by zero ends the call.
RECURSIVE MissingnessResults(_, _, _, _, _, _)
MissingnessResults(rows, metrics, k, n_sites, threshold, acc) ==
  IF k > Len(metrics)
  THEN [events |-> acc.events \o <<Ev("tally", None, acc.n_fail, 0, NoTable)>>,
        raised |-> ""]
  ELSE LET n_missing == NMissing(rows, metrics[k])
       IN IF DivisionRaises(n_sites)
          THEN [events |-> acc.events, raised |-> "ZeroDivisionError"]
          ELSE LET failed == FailsThreshold(n_missing, n_sites, threshold)
               IN MissingnessResults(rows, metrics, k + 1, n_sites, threshold,
                    [events |-> Append(acc.events,
                                  Ev(IF failed THEN "FAILED" ELSE "Passed",
                                     metrics[k], n_missing, n_sites, NoTable)),
                     n_fail |-> acc.n_fail + (IF failed THEN 1 ELSE 0)])

ComputeMissingness(tv, metrics, n_sites, threshold) ==
  MissingnessResults(tv.rows, metrics, 1, n_sites, threshold,
                     [events |-> <<>>, n_fail |-> 0])

\* check_global_and_row_annot_lengths on the first row (check_all_rows
\* keeps its default): one comparison line, "Failed" when a length differs.
CheckGlobalAndRowAnnotLengths(tv) ==
  LET head == SubSeq(tv.rows, 1, IF Len(tv.rows) > 0 THEN 1 ELSE 0)
      n_fail == CountWhere(head, "q")
  IN [events |-> <<Ev(IF n_fail > 0 THEN "Failed" ELSE "Passed", None,
                      n_fail, Count(head), NoTable)>>,
      raised |-> ""]

\* The call of one family on the dataset: the lines it reports and the
\* exception it raises, "" when it returns.  Looking up an annotation the
\* dataset lacks raises before anything is reported.
StageCall(tv, vc, stage) ==
  IF stage \in tv.absent THEN [events |-> <<>>, raised |-> "LookupError"]
  ELSE IF stage \in LoopStages
  THEN LoopStage(tv, stage, vc.show_percent_sites)
  ELSE IF stage = "compute_missingness"
  THEN ComputeMissingness(tv, <<"p", "q">>, Count(tv.rows),
                          vc.missingness_threshold)
  ELSE IF stage = "check_global_and_row_annot_lengths"
  THEN CheckGlobalAndRowAnnotLengths(tv)
  ELSE [events |-> <<Ev("summary", None, Count(tv.rows), 0, NoTable)>>,
        raised |-> ""]

\* The header of a family, and the line that marks its return.
StageHeader(stage) == [stage |-> stage, ev |-> Ev("header", None, 0, 0, NoTable)]
StageReturned(stage) == [stage |-> stage, ev |-> Ev("returned", None, 0, 0, NoTable)]
Completion ==
  [stage |-> "validate_release_t", ev |-> Ev("complete", None, 0, 0, NoTable)]

InitVal ==
  /\ vt \in ValTables
  /\ vcall \in ValCalls
  /\ vstage = 1
  /\ vlog = <<>>
  /\ vresult = "unset"
  /\ vpc = "running"
  /\ OthersIdle("val")

\* An exception a family raises leaves validate_release_t: no call is
\* wrapped in try/except.
PropagatesNever(raised) == FALSE
Propagates(raised) == raised # ""

\* A guard that holds: the header is logged and the family is called; an
\* exception it raises leaves validate_release_t (no call is wrapped in
\* try/except).
RunStage ==
  /\ vpc = "running"
  /\ vstage <= Len(Stages)
  /\ StageEnabled(vcall, vstage)
  /\ \E stage \in {Stages[vstage]} : \E r \in {StageCall(vt, vcall, stage)} :
        IF Propagates(r.raised)
        THEN /\ vlog' = vlog \o <<StageHeader(stage)>> \o Tag(stage, r.events)
             /\ vresult' = r.raised
             /\ vpc' = "raised"
             /\ vstage' = vstage
        ELSE /\ vlog' = vlog \o <<StageHeader(stage)>> \o Tag(stage, r.events)
                          \o <<StageReturned(stage)>>
             /\ vstage' = vstage + 1
             /\ UNCHANGED <<vresult, vpc>>
  /\ UNCHANGED <<vt, vcall>>
  /\ UNCHANGED nonValVars

\* A guard that fails: the family is passed over.
SkipStage ==
  /\ vpc = "running"
  /\ vstage <= Len(Stages)
  /\ ~StageEnabled(vcall, vstage)
  /\ vstage' = vstage + 1
  /\ UNCHANGED <<vt, vcall, vlog, vresult, vpc>>
  /\ UNCHANGED nonValVars

\* Line 1123: the completion line, then the implicit return of None.
LogComplete ==
  /\ vpc = "running"
  /\ vstage = Len(Stages) + 1
  /\ vlog' = Append(vlog, Completion)
  /\ vresult' = None
  /\ vpc' = "done"
  /\ UNCHANGED <<vt, vcall, vstage>>
  /\ UNCHANGED nonValVars

NextVal == RunStage \/ SkipStage \/ LogComplete

SpecVal == InitVal /\ [][NextVal]_vars

\* The calls with at most one guard false or at most one guard true.
ValCallsFair ==
  {vc \in ValCalls :
     \/ Cardinality({f \in Range(StageFlags) : ~vc[f]}) <= 1
     \/ Cardinality({f \in Range(StageFlags) : vc[f]}) <= 1}

InitValFair ==
  /\ vt \in ValTables
  /\ vcall \in ValCallsFair
  /\ vstage = 1
  /\ vlog = <<>>
  /\ vresult = "unset"
  /\ vpc = "running"
  /\ OthersIdle("val")

\* The statements of validate_release_t run one after the other on one
\* thread: a step that can be taken is taken.
SpecValFair == InitValFair /\ [][NextVal]_vars /\ WF_vars(NextVal)

(* ------------------- properties of validate_release_t ------------------ *)

\* The position of a family in the order of the calls.
StageIndex(stage) == CHOOSE k \in 1..Len(Stages) : Stages[k] = stage

\* The lines of the log that belong to the k-th family, and its headers.
StageEvents(k) == {i \in 1..Len(vlog) : vlog[i].stage = Stages[k]}
StageHeaders(k) == {i \in StageEvents(k) : vlog[i].ev.op = "header"}
Executed(k) == StageHeaders(k) # {}

\* The argument that guards the k-th family was passed as true (for the
\* length check: row_to_globals_check was given).
FlagSet(k) == vcall[StageFlags[k]]

FailureLines(k) ==
  {i \in StageEvents(k) : vlog[i].ev.op \in {"found", "FAILED", "Failed"}}

\* The k-th family returned to validate_release_t.
Returned(k) == \E i \in StageEvents(k) : vlog[i].ev.op = "returned"

\* The families after the one the run is at whose guard holds.
LaterEnabled == {k \in 1..Len(Stages) : k > vstage /\ FlagSet(k)}

\* C17 as stated: after an exception raised inside a family the run goes
\* on, and every later family whose guard holds still executes.
C17_StageIndependence ==
  (vpc = "raised") ~> (\A k \in LaterEnabled : Executed(k))

\* C17 amended: a failed check is reported and the family returns, so the
\* run goes on to the later families; an exception raised inside a family
\* ends the run there: the exception is the outcome of validate_release_t,
\* the last line of the log is a line of that family, no later family
\* executes and the completion line is not logged.
C17_ExceptionEndsRun ==
  /\ \A k \in 1..Len(Stages) :
       (k < vstage /\ Executed(k)) =>
         /\ Returned(k)
         /\ StageCall(vt, vcall, Stages[k]).raised = ""
  /\ vpc = "raised" =>
       /\ vresult \in {"LookupError", "ZeroDivisionError"}
       /\ vresult = StageCall(vt, vcall, Stages[vstage]).raised
       /\ Executed(vstage) /\ ~Returned(vstage)
       /\ vlog[Len(vlog)].stage = Stages[vstage]
       /\ \A k \in LaterEnabled : ~Executed(k)
       /\ \A i \in 1..Len(vlog) : vlog[i] # Completion
  /\ vpc = "done" =>
       \A k \in 1..Len(Stages) : FlagSet(k) => (Executed(k) /\ Returned(k))

\* C17 witness: the raw/adj check reports a failure and returns, the
\* subset comparison raises on an annotation the dataset lacks, and the
\* missingness check, whose guard holds, has not executed.
C17_Witness ==
  /\ vpc = "raised"
  /\ vstage = 6
  /\ vresult = "LookupError"
  /\ FailureLines(5) # {} /\ Returned(5)
  /\ 9 \in LaterEnabled /\ ~Executed(9)

\* The dataset has every annotation the families refer to.
EveryFieldExists == vt.absent = {}

\* The terminal state of validate_release_t: every family whose guard
\* holds has executed and returned, the completion line is the last line
\* of the log, and the call has returned None.
Terminal ==
  /\ vpc = "done"
  /\ vresult = None
  /\ Len(vlog) > 0
  /\ vlog[Len(vlog)] = Completion
  /\ \A i \in 1..(Len(vlog) - 1) : vlog[i] # Completion
  /\ \A k \in 1..Len(Stages) : FlagSet(k) => (Executed(k) /\ Returned(k))

\* C18 as stated: on a dataset that has every referenced annotation no
\* family raises, whatever the number of failures it finds, and
\* validate_release_t eventually reaches its terminal state, the
\* completion line last and None returned.
C18_FindingsNeverAbort ==
  /\ [](EveryFieldExists => vpc # "raised")
  /\ (EveryFieldExists /\ vpc = "running") ~> Terminal

(* --------------- properties of make_group_sum_expr_dict ---------------- *)

\* The builder ran on a mapping that has the group axis.
BuilderRan == cpc \in {"built", "raised"} /\ HasKey(ccall.label_groups, "group")

\* The subset with its trailing delimiter (lines 150-151).
CallSubset ==
  IF ccall.subset # "" THEN ccall.subset \o ccall.delimiter ELSE ccall.subset

\* The fields requested for the sum of a metric, and those of them the
\* table's info record lacks.
RequestedFields(metric) ==
  {FieldPrefix(metric, CallSubset, ccall.delimiter, ccall.metric_first_field)
     \o built.label_combos[k] : k \in 1..Len(built.label_combos)}
AbsentFields(metric) == RequestedFields(metric) \ ccall.info_fields

\* The field each sum is compared to, and the key the sum is looked up by.
Target(metric) ==
  CheckFieldLeft(metric, CallSubset, built.group, ccall.delimiter,
                 ccall.metric_first_field)
SumKey(metric) ==
  "sum" \o ccall.delimiter \o Target(metric) \o ccall.delimiter
    \o built.sum_group

\* The entry of field_check_expr for a metric.
EntriesFor(metric) ==
  {k \in 1..Len(built.field_check_expr) :
     built.field_check_expr[k].values.left = Target(metric)}

\* C19 as stated: when a field requested for a sum is absent from info (the
\* compared fields being there), the builder does not raise, warns once
\* for each absent field, sums the requested fields that are present, and
\* returns one entry per metric.
C19_MissingFieldRecovery ==
  (/\ BuilderRan
   /\ \E k \in 1..Len(ccall.metrics) : AbsentFields(ccall.metrics[k]) # {}
   /\ \A k \in 1..Len(ccall.metrics) : Target(ccall.metrics[k]) \in ccall.info_fields)
  =>
    /\ built.raised = ""
    /\ Range(built.warnings) = UNION {AbsentFields(ccall.metrics[k]) :
                                        k \in 1..Len(ccall.metrics)}
    /\ Len(built.warnings) = Cardinality(Range(built.warnings))
    /\ Len(built.field_check_expr) = Len(ccall.metrics)
    /\ \A k \in 1..Len(ccall.metrics) :
         /\ Cardinality(EntriesFor(ccall.metrics[k])) = 1
         /\ \A j \in EntriesFor(ccall.metrics[k]) :
              Range(built.field_check_expr[j].values.summed)
                = RequestedFields(ccall.metrics[k]) \cap ccall.info_fields

\* The name with the metric and the subset in the order metric_first_field
\* selects: 'AC-subset-' or 'subset-AC-'.
Ordered(metric) ==
  IF ccall.metric_first_field THEN metric \o ccall.delimiter \o CallSubset
  ELSE CallSubset \o metric \o ccall.delimiter

\* C20: for both values of metric_first_field, every subset, metric and
\* delimiter, once the sums are built the compared field and every summed field begin with the
\* metric and the subset in the same order, and the key
\* sum<d><target><d><sum_group> looked up for the comparison is a key
\* stored when the sums were built.
C20_FieldNameOrdering ==
  (BuilderRan /\ built.raised # "TypeError") =>
    \A k \in 1..Len(ccall.metrics) :
      LET metric == ccall.metrics[k]
      IN /\ Target(metric) = Ordered(metric) \o built.group
         /\ RequestedFields(metric)
              = {Ordered(metric) \o built.label_combos[j] :
                   j \in 1..Len(built.label_combos)}
         /\ HasKey(built.annot_dict, SumKey(metric))
         /\ Range(Get(built.annot_dict, SumKey(metric)))
              \subseteq RequestedFields(metric)
         /\ built.raised # "KeyError"

\* C20 witness: with the subset first and the delimiter "_", the sums of
\* the subset non_v2 over pop are stored and found under
\* sum_non_v2_AC_adj_pop.
C20_Witness ==
  /\ cpc = "built"
  /\ ccall.subset = "non_v2" /\ ~ccall.metric_first_field
  /\ ccall.delimiter = "_"
  /\ built.sum_group = "pop"
  /\ HasKey(built.annot_dict, "sum_non_v2_AC_adj_pop")
  /\ \E j \in EntriesFor("AC") :
       /\ built.field_check_expr[j].values.left = "non_v2_AC_adj"
       /\ built.field_check_expr[j].values.right = "sum_non_v2_AC_adj_pop"
       /\ "non_v2_AC_adj_afr" \in Range(built.field_check_expr[j].values.summed)

(* ------------------- the builders of field_check_expr ------------------ *)

\* Largest number of rows of a dataset handed to a check family.
MaxRegRows == 2

\* Hail expressions on a row: a field of info, a number, hl.sum of fields,
\* a comparison, hl.is_missing, hl.is_defined, hl.if_else and "&".
Fld(name) == [k |-> "field", name |-> name]
Lit(n) == [k |-> "lit", n |-> n]
SumE(names) == [k |-> "sum", names |-> names]
Cmp(op, l, r) == [k |-> "cmp", op |-> op, l |-> l, r |-> r]
IsMissingE(x) == [k |-> "is_missing", x |-> x]
IsDefinedE(x) == [k |-> "is_defined", x |-> x]
IfElse(c, t, e) == [k |-> "if_else", c |-> c, t |-> t, e |-> e]
AndE(a, b) == [k |-> "and", a |-> a, b |-> b]

\* hl.sum(array): the sum of the defined elements (filter_missing is true
\* by default).
RECURSIVE SumDefined(_, _)
SumDefined(row, names) ==
  IF names = <<>> THEN 0
  ELSE (IF row[Head(names)] = NoneInt THEN 0 ELSE row[Head(names)])
         + SumDefined(row, Tail(names))

\* The value of a numeric expression on a row, NoneInt when missing.
EvalNum(e, row) ==
  IF e.k = "field" THEN row[e.name]
  ELSE IF e.k = "lit" THEN e.n
  ELSE SumDefined(row, e.names)

\* A comparison is missing when an operand is.
Compare(op, a, b) ==
  IF a = NoneInt \/ b = NoneInt THEN "M"
  ELSE IF (\/ op = "==" /\ a = b
           \/ op = "!=" /\ a # b
           \/ op = "<" /\ a < b
           \/ op = "<=" /\ a <= b
           \/ op = ">" /\ a > b
           \/ op = ">=" /\ a >= b)
       THEN "T" ELSE "F"

\* a & b with missing values: false when either is false.
And3(a, b) ==
  IF a = "F" \/ b = "F" THEN "F" ELSE IF a = "M" \/ b = "M" THEN "M" ELSE "T"

\* The value of a boolean expression on a row: "T", "F" or "M".
RECURSIVE EvalBool(_, _)
EvalBool(e, row) ==
  IF e.k = "cmp" THEN Compare(e.op, EvalNum(e.l, row), EvalNum(e.r, row))
  ELSE IF e.k = "is_missing"
  THEN (IF EvalNum(e.x, row) = NoneInt THEN "T" ELSE "F")
  ELSE IF e.k = "is_defined"
  THEN (IF EvalNum(e.x, row) = NoneInt THEN "F" ELSE "T")
  ELSE IF e.k = "and" THEN And3(EvalBool(e.a, row), EvalBool(e.b, row))
  ELSE LET c == EvalBool(e.c, row)
       IN IF c = "M" THEN "M"
          ELSE IF c = "T" THEN EvalBool(e.t, row) ELSE EvalBool(e.e, row)

\* One registration field_check_expr[desc] = {...}: the description, the
\* relation the description states, the failure predicate "expr" and the
\* display fields.  The relation of a description is a comparison, or one
\* of the three definedness rules of check_raw_and_adj_callstats:
\*   "defined_iff":       x defined when AN defined and missing when AN missing
\*   "af_defined_iff":    x defined when AN defined (and > 0) and missing
\*                        when AN missing
\*   "missing_when_zero": x missing when AN 0
Registration(desc, rel, expr, display_fields) ==
  [desc |-> desc, rel |-> rel, expr |-> expr, agg_func |-> "count_where",
   display_fields |-> display_fields]

Rule(k, x, an) == [k |-> k, x |-> x, an |-> an]

\* The concatenation of a sequence of sequences.
RECURSIVE Flatten(_)
Flatten(seqs) == IF seqs = <<>> THEN <<>> ELSE Head(seqs) \o Flatten(Tail(seqs))

\* Lines 634-635: (t.info[an_field] > 0) & hl.is_missing(t.info[check_field])
AFMissingWithANOrZero(an_field, check_field) ==
  AndE(Cmp(">=", Fld(an_field), Lit(0)), IsMissingE(Fld(check_field)))
AFMissingWithAN(an_field, check_field) ==
  AndE(Cmp(">", Fld(an_field), Lit(0)), IsMissingE(Fld(check_field)))

\* check_raw_and_adj_callstats, lines 609-654: the definedness checks of
\* one tier.
DefinednessChecks(group, delimiter) ==
  LET an_field == "AN" \o delimiter \o group
      Defined(subfield) ==
        LET check_field == subfield \o delimiter \o group
        IN Registration(
             check_field \o " defined when AN defined and missing when AN missing",
             Rule("defined_iff", check_field, an_field),
             IfElse(IsMissingE(Fld(an_field)), IsDefinedE(Fld(check_field)),
                    IsMissingE(Fld(check_field))),
             {an_field, check_field})
      af == "AF" \o delimiter \o group
  IN <<Defined("AC"), Defined("nhomalt"),
       Registration(
         af \o " defined when AN defined (and > 0) and missing when AN missing",
         Rule("af_defined_iff", af, an_field),
         IfElse(IsMissingE(Fld(an_field)), IsDefinedE(Fld(af)),
                AFMissingWithAN(an_field, af)),
         {an_field, af}),
       Registration(
         af \o " missing when AN 0",
         Rule("missing_when_zero", af, an_field),
         AndE(Cmp("==", Fld(an_field), Lit(0)), IsDefinedE(Fld(af))),
         {an_field, af})>>

\* Lines 656-673: raw AC, AF > 0 and adj AC, AF >= 0.
PositiveChecks(subfield, delimiter) ==
  LET raw == subfield \o delimiter \o "raw"
      adj == subfield \o delimiter \o "adj"
  IN <<Registration(raw \o " > 0", Cmp(">", Fld(raw), Lit(0)),
                    Cmp("<=", Fld(raw), Lit(0)), {raw}),
       Registration(adj \o " >= 0", Cmp(">=", Fld(adj), Lit(0)),
                    Cmp("<", Fld(adj), Lit(0)), {adj, "filters"})>>

\* Lines 678-689 and 700-712: raw >= adj for one pair of fields.
RawLessThanAdjFlipped(check_field_left, check_field_right) ==
  Cmp(">", Fld(check_field_left), Fld(check_field_right))
RawLessThanAdj(check_field_left, check_field_right) ==
  Cmp("<", Fld(check_field_left), Fld(check_field_right))

RawGeAdj(check_field_left, check_field_right) ==
  Registration(check_field_left \o " >= " \o check_field_right,
               Cmp(">=", Fld(check_field_left), Fld(check_field_right)),
               RawLessThanAdj(check_field_left, check_field_right),
               {check_field_left, check_field_right})

FieldCheckLabelMetricFirst(subfield, subset_arg, delimiter, metric_first_field) ==
  LET subset == IF subset_arg # "" THEN subset_arg \o delimiter ELSE subset_arg
  IN subfield \o delimiter \o subset

\* Lines 691-699: "if subset: subset += delimiter" rebinds the loop
\* variable; the label of the fields of a subset.
FieldCheckLabel(subfield, subset_arg, delimiter, metric_first_field) ==
  LET subset == IF subset_arg # "" THEN subset_arg \o delimiter ELSE subset_arg
  IN IF metric_first_field THEN subfield \o delimiter \o subset
     ELSE subset \o subfield \o delimiter

\* Lines 675-712: the checks of one metric, the whole callset first and
\* then each subset of the list.
MonotonicChecks(subfield, subsets, delimiter, metric_first_field) ==
  <<RawGeAdj(subfield \o delimiter \o "raw", subfield \o delimiter \o "adj")>>
  \o [k \in 1..Len(subsets) |->
        LET field_check_label ==
              FieldCheckLabel(subfield, subsets[k], delimiter, metric_first_field)
        IN RawGeAdj(field_check_label \o "raw", field_check_label \o "adj")]

\* check_raw_and_adj_callstats: every registration, in order.
CheckRawAndAdjCallstats(subsets, delimiter, metric_first_field) ==
  DefinednessChecks("raw", delimiter) \o DefinednessChecks("adj", delimiter)
  \o PositiveChecks("AC", delimiter) \o PositiveChecks("AF", delimiter)
  \o Flatten([m \in 1..3 |->
                MonotonicChecks(<<"AC", "AN", "nhomalt">>[m], subsets, delimiter,
                                metric_first_field)])

\* compare_subset_freqs, lines 402-434: the predicate of one entry.
SubsetFreqExprNotEqual(check_field_left, check_field_right) ==
  Cmp("!=", Fld(check_field_left), Fld(check_field_right))
SubsetFreqExpr(check_field_left, check_field_right) ==
  Cmp("==", Fld(check_field_left), Fld(check_field_right))

\* The name of the field of a subset (lines 417-424).
SubsetField(metric, subset, group, delimiter, metric_first_field) ==
  IF metric_first_field
  THEN metric \o delimiter \o subset \o delimiter \o group
  ELSE subset \o delimiter \o metric \o delimiter \o group

\* compare_subset_freqs: one registration per non-empty subset, metric and
\* tier in the order adj, raw.
CompareSubsetFreqs(subsets, delimiter, metric_first_field, metrics) ==
  Flatten([s \in 1..Len(subsets) |->
    IF subsets[s] = "" THEN <<>>
    ELSE Flatten([m \in 1..Len(metrics) |->
           [g \in 1..2 |->
              LET group == <<"adj", "raw">>[g]
                  check_field_left == metrics[m] \o delimiter \o group
                  check_field_right ==
                    SubsetField(metrics[m], subsets[s], group, delimiter,
                                metric_first_field)
              IN Registration(check_field_left \o " != " \o check_field_right,
                              Cmp("!=", Fld(check_field_left),
                                  Fld(check_field_right)),
                              SubsetFreqExpr(check_field_left, check_field_right),
                              {check_field_left, check_field_right})]])])

\* make_group_sum_expr_dict as registrations: the description states
\* "left = right", right naming hl.sum of the summed fields; the predicate
\* is t.info[left] != annot_dict[right] (lines 200-203).
GroupSumRegistrationKeyedByLeft(v) ==
  Registration(v.values.left, Cmp("==", Fld(v.values.left), SumE(v.values.summed)),
               Cmp("!=", Fld(v.values.left), SumE(v.values.summed)),
               {v.values.left, v.values.right})
GroupSumRegistration(v) ==
  Registration(v.name, Cmp("==", Fld(v.values.left), SumE(v.values.summed)),
               Cmp("!=", Fld(v.values.left), SumE(v.values.summed)),
               {v.values.left, v.values.right})

GroupSumRegistrations(subset, lg, sort_order, delimiter, metric_first_field, metrics) ==
  CHOOSE regs \in
    {[k \in 1..Len(r.field_check_expr) |->
        GroupSumRegistration(r.field_check_expr[k])] :
       r \in {MakeGroupSumExprDict(
                ExpectedInfo(subset, lg, delimiter, metric_first_field), subset,
                lg, sort_order, delimiter, metric_first_field, metrics)}} : TRUE

\* The keys of default_pop_subset = {subset: pops for subset in subsets}: a
\* subset listed twice is one key, at its first position.
DictKeysOf(subsets) ==
  LET First(k) == \A j \in 1..(k - 1) : subsets[j] # subsets[k]
      kept == SelectSeq([k \in 1..Len(subsets) |-> k], First)
  IN [i \in 1..Len(kept) |-> subsets[kept[i]]]

\* sum_group_callstats, lines 485-523: for every subset and group the sums
\* over pop, over sex and over pop and sex, each built from a fresh
\* dictionary.
SumGroupCallstats(sexes, subsets, pops, groups, sort_order, delimiter, metric_first_field, metrics) ==
  LET keys == DictKeysOf(subsets)
      Build(subset, group, rest) ==
        GroupSumRegistrations(subset, <<Item("group", <<group>>)>> \o rest,
                              sort_order, delimiter, metric_first_field, metrics)
  IN Flatten([s \in 1..Len(keys) |->
       Flatten([g \in 1..Len(groups) |->
         Build(keys[s], groups[g], <<Item("pop", pops)>>)
         \o Build(keys[s], groups[g], <<Item("sex", sexes)>>)
         \o Build(keys[s], groups[g], <<Item("pop", pops), Item("sex", sexes)>>)])])

\* check_sex_chr_metrics, lines 772-789: one registration per metric whose
\* name contains <delimiter>XX and nhomalt.
SexChrRegistrations(info_metrics, delimiter) ==
  LET Wanted(m) == ContainsXX(m, delimiter) /\ ContainsNhomalt(m)
      xx_metrics == SelectSeq(info_metrics, Wanted)
  IN [k \in 1..Len(xx_metrics) |->
        LET check_field_left == MetricName(xx_metrics[k])
            check_field_right == MetricName(ReplaceXX(xx_metrics[k], delimiter))
        IN Registration(check_field_left \o " == " \o check_field_right,
                        Cmp("==", Fld(check_field_left), Fld(check_field_right)),
                        Cmp("!=", Fld(check_field_left), Fld(check_field_right)),
                        {check_field_left, check_field_right})]

\* field_check_expr after the registrations: a description registered
\* again keeps its position and takes the new value.
Registered(regs) ==
  LET First(k) == \A j \in 1..(k - 1) : regs[j].desc # regs[k].desc
      Last(k) == \A j \in (k + 1)..Len(regs) : regs[j].desc # regs[k].desc
      kept == SelectSeq([k \in 1..Len(regs) |-> k], First)
  IN [i \in 1..Len(kept) |->
        regs[CHOOSE j \in 1..Len(regs) :
               regs[j].desc = regs[kept[i]].desc /\ Last(j)]]

\* The fields an expression refers to.
RECURSIVE FieldsOf(_)
FieldsOf(e) ==
  IF e.k = "field" THEN {e.name}
  ELSE IF e.k = "lit" THEN {}
  ELSE IF e.k = "sum" THEN Range(e.names)
  ELSE IF e.k = "cmp" THEN FieldsOf(e.l) \cup FieldsOf(e.r)
  ELSE IF e.k \in {"is_missing", "is_defined"} THEN FieldsOf(e.x)
  ELSE IF e.k = "and" THEN FieldsOf(e.a) \cup FieldsOf(e.b)
  ELSE FieldsOf(e.c) \cup FieldsOf(e.t) \cup FieldsOf(e.e)

\* The arguments the families are called with.
RegPops == <<"afr", "amr">>
RegMetrics == <<"AC", "AN", "nhomalt">>
RegInfoMetrics(delimiter) ==
  <<Metric(<<"nhomalt">>, delimiter), Metric(<<"nhomalt", "XX">>, delimiter),
    Metric(<<"nhomalt", "afr">>, delimiter),
    Metric(<<"nhomalt", "afr", "XX">>, delimiter),
    Metric(<<"AC", "XX">>, delimiter)>>

\* The registrations a family makes for a call.
Registrations(c) ==
  IF c.family = "check_raw_and_adj_callstats"
  THEN CheckRawAndAdjCallstats(c.subsets, c.delimiter, c.metric_first_field)
  ELSE IF c.family = "compare_subset_freqs"
  THEN CompareSubsetFreqs(c.subsets, c.delimiter, c.metric_first_field, RegMetrics)
  ELSE IF c.family = "sum_group_callstats"
  THEN SumGroupCallstats(SEXES, c.subsets, RegPops, <<"adj">>, SORT_ORDER,
                         c.delimiter, c.metric_first_field, RegMetrics)
  ELSE SexChrRegistrations(RegInfoMetrics(c.delimiter), c.delimiter)

\* The fields of info a call refers to.
ReferencedFields(c) ==
  UNION UNION {{FieldsOf(regs[k].expr) : k \in 1..Len(regs)} :
                 regs \in {Registrations(c)}}
  \cup (IF c.family = "compare_subset_freqs"
        THEN {"AC" \o c.delimiter \o "raw"} ELSE {})

\* The values of a row, by the kind of field: AN of the raw and of the adj
\* tier, any other raw and adj field, the fields of a subset and the XX
\* fields (the whole callset's value, one more, or missing), and the
\* fields of one population or sex.
RegPattern(an_raw, an_adj, x_raw, x_adj, sub, part) ==
  [an_raw |-> an_raw, an_adj |-> an_adj, x_raw |-> x_raw, x_adj |-> x_adj,
   sub |-> sub, part |-> part]

RegPatterns ==
  <<RegPattern(2, 2, 2, 2, "same", 1),
    RegPattern(2, 1, 1, 2, "more", 0),
    RegPattern(NoneInt, NoneInt, NoneInt, NoneInt, "same", NoneInt),
    RegPattern(NoneInt, 2, 1, NoneInt, "missing", 1),
    RegPattern(0, 0, NoneInt, NoneInt, "more", 1),
    RegPattern(0, 0, 0, 0, "same", 0),
    RegPattern(1, NoneInt, NoneInt, 1, "same", NoneInt),
    RegPattern(1, 2, 2, 1, "missing", 0),
    RegPattern(2, 0, 0, 1, "more", 1),
    RegPattern(0, 1, 1, 0, "same", 1)>>

Shift(v, sub) ==
  IF sub = "missing" \/ v = NoneInt THEN NoneInt
  ELSE IF sub = "more" THEN v + 1 ELSE v

\* The kinds of the fields of a call, by name.
WholeFields(c) ==
  {[name |-> m \o c.delimiter \o g, metric |-> m, tier |-> g, kind |-> "whole"] :
     m \in {"AC", "AN", "AF", "nhomalt"}, g \in {"raw", "adj"}}

SubsetFields(c) ==
  {[name |-> SubsetField(m, c.subsets[s], g, c.delimiter, c.metric_first_field),
    metric |-> m, tier |-> g, kind |-> "subset"] :
     m \in {"AC", "AN", "AF", "nhomalt"}, g \in {"raw", "adj"},
     s \in {k \in 1..Len(c.subsets) : c.subsets[k] # ""}}

PlainFields(c) ==
  {[name |-> MetricName(RegInfoMetrics(c.delimiter)[k]),
    metric |-> RegInfoMetrics(c.delimiter)[k].parts[1], tier |-> "adj",
    kind |-> IF ContainsXX(RegInfoMetrics(c.delimiter)[k], c.delimiter)
             THEN "subset" ELSE "whole"] :
     k \in 1..Len(RegInfoMetrics(c.delimiter))}

KnownFields(c) == WholeFields(c) \cup SubsetFields(c) \cup PlainFields(c)

PatternValue(p, f) ==
  LET base == IF f.metric = "AN"
              THEN (IF f.tier = "raw" THEN p.an_raw ELSE p.an_adj)
              ELSE (IF f.tier = "raw" THEN p.x_raw ELSE p.x_adj)
  IN IF f.kind = "whole" THEN base ELSE Shift(base, p.sub)

\* A row of info with the given fields: a field of one population or sex
\* is any field that is none of the above.
RegRow(p, names, known) ==
  [n \in names |->
     IF \E f \in known : f.name = n
     THEN PatternValue(p, CHOOSE f \in known : f.name = n)
     ELSE p.part]

RegCalls ==
  [family : {"check_raw_and_adj_callstats", "compare_subset_freqs",
             "sum_group_callstats", "check_sex_chr_metrics"},
   subsets : {<<"">>, <<"non_v2">>, <<"", "non_v2">>, <<"non_v2", "", "non_v2">>},
   delimiter : {"-", "_"},
   metric_first_field : BOOLEAN]

\* Datasets of one to MaxRegRows consecutive patterns.
RegTablesOf(names, known) ==
  {[i \in 1..n |->
      RegRow(RegPatterns[((k + i - 2) % Len(RegPatterns)) + 1], names, known)] :
     n \in 1..MaxRegRows, k \in 1..Len(RegPatterns)}

RegTables(c) ==
  CHOOSE ts \in {RegTablesOf(names, known) :
                   names \in {ReferencedFields(c)}, known \in {KnownFields(c)}} :
    TRUE

\* The table handed to generic_field_check_loop, one column per predicate.
PredicateTable(rows, reg) ==
  LET descs == {reg[k].desc : k \in 1..Len(reg)}
      Value(f, row) ==
        CHOOSE v \in {EvalBool(g.expr, row) : g \in {x \in Range(reg) : x.desc = f}} :
          TRUE
  IN [fields |-> {"idx"} \cup descs,
      rows |-> [r \in 1..Len(rows) |->
                  [f \in {"idx"} \cup descs |->
                     IF f = "idx" THEN r ELSE Value(f, rows[r])]]]

\* generic_field_check_loop(t, field_check_expr, verbose) on the registry.
RunRegistry(rows, reg) ==
  CHOOSE out \in
    {GenericFieldCheckLoop(<<tv>>, CallerHandle,
                           [k \in 1..Len(reg) |-> Entry(reg[k].desc, reg[k].desc)],
                           FALSE, FALSE, NoneInt) :
       tv \in {PredicateTable(rows, reg)}} : TRUE

InitReg ==
  /\ rcall \in RegCalls
  /\ rht \in RegTables(rcall)
  /\ rregs = <<>>
  /\ registry = <<>>
  /\ rlog = <<>>
  /\ rpc = "ready"
  /\ OthersIdle("reg")

\* compare_subset_freqs, lines 443-447: the count of rows with AC raw
\* defined, logged after the loop.
SpotCheck(c, rows) ==
  IF c.family = "compare_subset_freqs"
  THEN <<Ev("total_defined_raw_ac", None,
            Cardinality({r \in 1..Len(rows) :
                           rows[r]["AC" \o c.delimiter \o "raw"] # NoneInt}),
            0, NoTable)>>
  ELSE <<>>

\* A check family builds field_check_expr and hands it to
\* generic_field_check_loop.  (For check_sex_chr_metrics the dataset is
\* the rows of chrX outside the pseudo-autosomal region.)
CallFamily(family) ==
  /\ rpc = "ready"
  /\ rcall.family = family
  /\ \E regs \in {Registrations(rcall)} : \E reg \in {Registered(regs)} :
       /\ rregs' = regs
       /\ registry' = reg
       /\ rlog' = RunRegistry(rht, reg).events \o SpotCheck(rcall, rht)
  /\ rpc' = "done"
  /\ UNCHANGED <<rht, rcall>>
  /\ UNCHANGED nonRegVars

CallCheckRawAndAdjCallstats == CallFamily("check_raw_and_adj_callstats")
CallCompareSubsetFreqs == CallFamily("compare_subset_freqs")
CallSumGroupCallstats == CallFamily("sum_group_callstats")
CallCheckSexChrMetricsX == CallFamily("check_sex_chr_metrics")

NextReg ==
  \/ CallCheckRawAndAdjCallstats
  \/ CallCompareSubsetFreqs
  \/ CallSumGroupCallstats
  \/ CallCheckSexChrMetricsX

SpecReg == InitReg /\ [][NextReg]_vars


(* ------------------ properties of the check families ------------------- *)

\* Every field a registration refers to is defined on the row.
ComparedDefined(reg, row) == \A f \in FieldsOf(reg.expr) : row[f] # NoneInt

\* The relation a description states, on a row.
RelHolds(rel, row) ==
  IF rel.k = "cmp"
  THEN \/ rel.op = "==" /\ EvalNum(rel.l, row) = EvalNum(rel.r, row)
       \/ rel.op = "!=" /\ EvalNum(rel.l, row) # EvalNum(rel.r, row)
       \/ rel.op = ">" /\ EvalNum(rel.l, row) > EvalNum(rel.r, row)
       \/ rel.op = ">=" /\ EvalNum(rel.l, row) >= EvalNum(rel.r, row)
  ELSE IF rel.k = "defined_iff"
  THEN (row[rel.x] # NoneInt) <=> (row[rel.an] # NoneInt)
  ELSE IF rel.k = "af_defined_iff"
  THEN /\ (row[rel.an] # NoneInt /\ row[rel.an] > 0) => row[rel.x] # NoneInt
       /\ row[rel.an] = NoneInt => row[rel.x] = NoneInt
  ELSE row[rel.an] = 0 => row[rel.x] = NoneInt

\* The rows of the dataset a predicate is true on.
CountedRows(expr) == {r \in 1..Len(rht) : EvalBool(expr, rht[r]) = "T"}

\* The number of failing rows reported under a description.
Reported(desc) ==
  {rlog[i].n : i \in {j \in 1..Len(rlog) :
                        /\ rlog[j].desc = desc
                        /\ rlog[j].op \in {"found", "passed"}}}

\* C21: for every entry a check family registers (the sums of groups, raw
\* and adj, the subset frequencies, the XX metrics), on a row where every
\* compared field is defined the failure predicate is true exactly when the
\* relation the description states is false, and the number reported under
\* a description is the number of rows its predicate is true on.
C21_PredicatePolarity ==
  rpc = "done" =>
    /\ \A k \in 1..Len(rregs) : \A r \in 1..Len(rht) :
         ComparedDefined(rregs[k], rht[r]) =>
           (EvalBool(rregs[k].expr, rht[r]) = "T"
              <=> ~RelHolds(rregs[k].rel, rht[r]))
    /\ \A k \in 1..Len(registry) :
         Reported(registry[k].desc)
           = {Cardinality(CountedRows(registry[k].expr))}

\* C21 witness: compare_subset_freqs ran on a dataset with a row, every
\* field defined, that a predicate is true on and another such row that a
\* predicate is false on.
C21_Witness ==
  /\ rpc = "done"
  /\ rcall.family = "compare_subset_freqs"
  /\ \E r \in 1..Len(rht), q \in 1..Len(rht), k \in 1..Len(rregs) :
       /\ ComparedDefined(rregs[k], rht[r])
       /\ ComparedDefined(rregs[k], rht[q])
       /\ EvalBool(rregs[k].expr, rht[r]) = "T"
       /\ EvalBool(rregs[k].expr, rht[q]) = "F"


\* The (subset, metric, tier) triples compare_subset_freqs is asked for,
\* with the fields each compares.
SubsetComparisons ==
  {[left |-> m \o rcall.delimiter \o g,
    right |-> SubsetField(m, s, g, rcall.delimiter, rcall.metric_first_field)] :
     s \in Range(rcall.subsets) \ {""}, m \in Range(RegMetrics),
     g \in {"adj", "raw"}}

\* The rows on which both fields are defined and equal, or differ.
EqualRows(c) ==
  {r \in 1..Len(rht) : /\ rht[r][c.left] # NoneInt /\ rht[r][c.right] # NoneInt
                       /\ rht[r][c.left] = rht[r][c.right]}
DifferingRows(c) ==
  {r \in 1..Len(rht) : /\ rht[r][c.left] # NoneInt /\ rht[r][c.right] # NoneInt
                       /\ rht[r][c.left] # rht[r][c.right]}

\* One check per requested comparison and none for the empty subset.
OneCheckPerComparison ==
  /\ {registry[k].desc : k \in 1..Len(registry)}
       = {c.left \o " != " \o c.right : c \in SubsetComparisons}
  /\ Len(registry) = Cardinality(SubsetComparisons)

\* C22 as stated: compare_subset_freqs registers one check per non-empty
\* subset, metric and tier, and a row is counted when the whole-callset
\* field and the subset's field differ.
C22_CountsMismatches ==
  (rpc = "done" /\ rcall.family = "compare_subset_freqs") =>
    /\ OneCheckPerComparison
    /\ \A c \in SubsetComparisons :
         Reported(c.left \o " != " \o c.right)
           = {Cardinality(DifferingRows(c))}

\* C22, amended: compare_subset_freqs registers one check per non-empty
\* subset, metric and tier in {adj, raw}, described "left != right", and a
\* row is counted when the whole-callset field and the subset's field are
\* both defined and equal; the empty subset contributes no check.
C22_CountsEqualRows ==
  (rpc = "done" /\ rcall.family = "compare_subset_freqs") =>
    /\ OneCheckPerComparison
    /\ \A c \in SubsetComparisons :
         Reported(c.left \o " != " \o c.right) = {Cardinality(EqualRows(c))}

\* C22 witness: with the subsets "" and non_v2, a dataset with a row where
\* AC-adj equals AC-non_v2-adj and a row where they differ gives the count
\* one under "AC-adj != AC-non_v2-adj".
C22_Witness ==
  /\ rpc = "done" /\ rcall.family = "compare_subset_freqs"
  /\ rcall.subsets = <<"", "non_v2">>
  /\ rcall.delimiter = "-" /\ rcall.metric_first_field
  /\ \E c \in SubsetComparisons :
       /\ c.left = "AC-adj" /\ c.right = "AC-non_v2-adj"
       /\ Cardinality(EqualRows(c)) = 1
       /\ Cardinality(DifferingRows(c)) = 1
       /\ Reported("AC-adj != AC-non_v2-adj") = {1}
  /\ Len(registry) = 6


\* The predicate registered under a description.
ExprOf(desc) ==
  (CHOOSE g \in Range(registry) : g.desc = desc).expr

\* C23: in check_raw_and_adj_callstats, for each tier in {raw, adj}, the
\* number reported by the definedness check of AC (and of nhomalt) is the
\* number of rows where exactly one of the field and the tier's AN is
\* defined; a row is counted by at least one of the two AF checks exactly
\* when AF is defined and AN missing, or AF is missing and AN > 0, or AF is
\* defined and AN = 0; a row with AN = 0 and AF missing is counted by
\* neither.
C23_DefinednessRules ==
  (rpc = "done" /\ rcall.family = "check_raw_and_adj_callstats") =>
    \A g \in {"raw", "adj"} :
      LET d == rcall.delimiter
          an == "AN" \o d \o g
          af == "AF" \o d \o g
          Def(r, f) == rht[r][f] # NoneInt
          by_af == CountedRows(ExprOf(af \o " defined when AN defined (and > 0) and missing when AN missing"))
                     \cup CountedRows(ExprOf(af \o " missing when AN 0"))
      IN /\ \A x \in {"AC" \o d \o g, "nhomalt" \o d \o g} :
              Reported(x \o " defined when AN defined and missing when AN missing")
                = {Cardinality({r \in 1..Len(rht) : Def(r, x) # Def(r, an)})}
         /\ by_af = {r \in 1..Len(rht) :
                       \/ Def(r, af) /\ ~Def(r, an)
                       \/ ~Def(r, af) /\ Def(r, an) /\ rht[r][an] > 0
                       \/ Def(r, af) /\ rht[r][an] = 0}
         /\ \A r \in 1..Len(rht) :
              (rht[r][an] = 0 /\ ~Def(r, af)) => r \notin by_af

\* C23 witness: a dataset with a row where AN raw is 0 and AF raw missing
\* (counted by neither AF check) and a row where AN raw is missing and AF
\* raw defined (counted by the first AF check only).
C23_Witness ==
  /\ rpc = "done" /\ rcall.family = "check_raw_and_adj_callstats"
  /\ rcall.delimiter = "-"
  /\ \E r \in 1..Len(rht), q \in 1..Len(rht) :
       /\ rht[r]["AN-raw"] = 0 /\ rht[r]["AF-raw"] = NoneInt
       /\ rht[q]["AN-raw"] = NoneInt /\ rht[q]["AF-raw"] # NoneInt
       /\ q \in CountedRows(ExprOf("AF-raw defined when AN defined (and > 0) and missing when AN missing"))
       /\ q \notin CountedRows(ExprOf("AF-raw missing when AN 0"))


\* The name of the field of a metric, subset ("" for the whole callset) and
\* tier, in the order metric_first_field asks for.
TierField(m, s, tier) ==
  IF s = "" THEN m \o rcall.delimiter \o tier
  ELSE IF rcall.metric_first_field
  THEN m \o rcall.delimiter \o s \o rcall.delimiter \o tier
  ELSE s \o rcall.delimiter \o m \o rcall.delimiter \o tier

\* The rows where both fields are defined and the first is less.
RowsLess(left, right) ==
  {r \in 1..Len(rht) : /\ rht[r][left] # NoneInt /\ rht[r][right] # NoneInt
                       /\ rht[r][left] < rht[r][right]}

\* C24: for the whole callset and every subset of the subsets list, and
\* every metric in {AC, AN, nhomalt}, check_raw_and_adj_callstats reports
\* under "<raw field> >= <adj field>" the number of rows where the raw
\* value is less than the adj value, both names built in the order given
\* by metric_first_field, whatever the position of the subset in the list;
\* the call leaves the caller's subsets list as it was.
C24_RawAtLeastAdj ==
  /\ [](rpc = "done" /\ rcall.family = "check_raw_and_adj_callstats" =>
          \A s \in Range(rcall.subsets) \cup {""} :
            \A m \in {"AC", "AN", "nhomalt"} :
              /\ Reported(TierField(m, s, "raw") \o " >= "
                            \o TierField(m, s, "adj")) # {}
              /\ Reported(TierField(m, s, "raw") \o " >= "
                            \o TierField(m, s, "adj"))
                   = {Cardinality(RowsLess(TierField(m, s, "raw"),
                                           TierField(m, s, "adj")))})
  /\ [][rcall'.subsets = rcall.subsets]_vars

\* C24 witness: with the subsets non_v2, "", non_v2 and the subset first,
\* a row where the raw AC of the subset is less than its adj AC is counted
\* under "non_v2-AC-raw >= non_v2-AC-adj".
C24_Witness ==
  /\ rpc = "done" /\ rcall.family = "check_raw_and_adj_callstats"
  /\ rcall.subsets = <<"non_v2", "", "non_v2">>
  /\ rcall.delimiter = "-" /\ ~rcall.metric_first_field
  /\ Cardinality(RowsLess("non_v2-AC-raw", "non_v2-AC-adj")) = 1
  /\ Reported("non_v2-AC-raw >= non_v2-AC-adj") = {1}
  /\ Reported("AC-raw >= AC-adj") = {1}


\* The report lines of the run: one "found" or "passed" per entry.
Reports == {i \in 1..Len(rlog) : rlog[i].op \in {"found", "passed"}}

\* The distinct checks registered: a predicate with its display fields.
DistinctChecks ==
  {[expr |-> rregs[k].expr, display_fields |-> rregs[k].display_fields] :
     k \in 1..Len(rregs)}

\* C30: in check_raw_and_adj_callstats, compare_subset_freqs and
\* sum_group_callstats, two registrations with the same description have
\* the same predicate and display fields, and the number of reports is the
\* number of distinct checks registered.
C30_NoCheckLost ==
  (rpc = "done" /\ rcall.family # "check_sex_chr_metrics") =>
    /\ \A j \in 1..Len(rregs), k \in 1..Len(rregs) :
         rregs[j].desc = rregs[k].desc =>
           /\ rregs[j].expr = rregs[k].expr
           /\ rregs[j].display_fields = rregs[k].display_fields
    /\ Cardinality(Reports) = Cardinality(DistinctChecks)

\* C30 witness: check_raw_and_adj_callstats with the subsets non_v2, "",
\* non_v2 makes 24 registrations, 6 of them under a description already
\* registered, and 18 reports.
C30_Witness ==
  /\ rpc = "done" /\ rcall.family = "check_raw_and_adj_callstats"
  /\ rcall.subsets = <<"non_v2", "", "non_v2">>
  /\ Len(rregs) = 24
  /\ Len(registry) = 18
  /\ Cardinality(Reports) = 18


(* --------------- the sort order of the summed label combos -------------- *)

\* C25: the label combinations whose fields make_group_sum_expr_dict sums
\* are the expansion of its label groups in the axis order of its
\* sort_order argument, the order that also names the sum group, for every
\* sort_order passed.
C25_SortOrderSortsLabelCombos ==
  (cpc = "built" /\ built.raised = "") =>
    /\ built.label_combos
         = MakeLabelCombos(ccall.label_groups, ccall.sort_order, ccall.delimiter)
    /\ built.sum_group
         = SumGroup(built.label_groups, ccall.sort_order, ccall.delimiter)


(* ------------- check_array_struct_missingness on any table -------------- *)

\* C26: on a table that has every array of the mapping as a row field and
\* every index dictionary as a global field, check_array_struct_missingness
\* returns, for each name <subfield>_<label>, the fraction of rows on which
\* the subfield of the array element at the label's index is missing,
\* whether or not the table already holds the flat fields.
C26_SynthesizesFlatFields ==
  (upc # "ready" /\ ucall = "check_array_struct_missingness"
     /\ ~SomeAnnotationAbsent) =>
    /\ upc = "returned"
    /\ \E flat \in {UnfurlArrayAnnotations(uht, indexed_array_annotations).result} :
         /\ Keys(uresult) = Keys(flat)
         /\ \A k \in 1..Len(flat) :
              Get(uresult, flat[k].name) = FlatMissingness(uht, flat[k].values)


(* ---------------------------- vcf_field_check --------------------------- *)

\* Largest number of rows of a dataset handed to vcf_field_check.
MaxVcfRows == 2

\* An entry header_dict[item][field]: absent, a description of length 0,
\* or a description with content.
HeaderStates == {"absent", "empty", "text"}

\* The header dictionaries: the top-level keys present and, per item, the
\* state of each field.
HeaderDicts ==
  [keys : {{"info", "filter", "format"}, {"info", "filter"}},
   info : [{"AC", "AF"} -> HeaderStates] \ [{"AC", "AF"} -> {"empty"}],
   filter : {f \in [{"AC0", "RF"} -> HeaderStates] : f["RF"] # "empty"},
   format : [{"GT", "END"} -> {"absent", "text"}]]

\* header_dict[item][field]: a KeyError when the item or the field is no
\* key.
HeaderLookup(header_dict, item, field) ==
  IF item \notin header_dict.keys THEN "absent" ELSE header_dict[item][field]

\* An optional list argument: None, or a list.
NoList == [none |-> TRUE, list |-> <<>>]
ListOf(names) == [none |-> FALSE, list |-> names]

\* The dataset: a Table or a MatrixTable, its rows given by their filters.
VcfTables ==
  [kind : {"Table", "MatrixTable"},
   rows : UNION {[1..n -> {{}, {"AC0"}, {"AC0", "RF"}}] : n \in 0..MaxVcfRows}]

VcfCalls ==
  [header_dict : HeaderDicts,
   row_annotations : {NoList, ListOf(<<>>), ListOf(<<"AC">>), ListOf(<<"AF", "AC">>)},
   entry_annotations : {NoList, ListOf(<<"GT">>), ListOf(<<"GT", "END">>)}]

\* Lines 874-876: "format" is checked when entry_annotations is a
\* non-empty list.
VcfItems(entry_annotations) ==
  IF entry_annotations.none \/ entry_annotations.list = <<>>
  THEN <<"info", "filter">> ELSE <<"info", "filter", "format">>

\* Lines 882-891: the filters present in the data, collected as a set and
\* listed in some order.
FiltersInData(t) == UNION {t.rows[r] : r \in 1..Len(t.rows)}
ListsOf(S) == {s \in [1..Cardinality(S) -> S] : Range(s) = S}

\* Lines 905-906: a field without a header entry is recorded as missing.
RecordsMissing(t, field) == t.kind = "MatrixTable" /\ field # "END"

\* Lines 893-906 for one item: the warnings, the fields recorded as
\* missing and those recorded with an empty description.
CheckItem(t, header_dict, item, annots) ==
  LET State(field) == HeaderLookup(header_dict, item, field)
      Warned(field) == State(field) # "text"
      Missing(field) == State(field) = "absent" /\ RecordsMissing(t, field)
      Empty(field) == State(field) = "empty"
      warned == SelectSeq(annots, Warned)
  IN [warnings |-> [k \in 1..Len(warned) |->
                      [op |-> IF State(warned[k]) = "empty"
                              THEN "empty description" ELSE "does not exist",
                       field |-> warned[k]]],
      missing_fields |-> SelectSeq(annots, Missing),
      missing_descriptions |-> SelectSeq(annots, Empty)]

\* The whole call, the filters listed as given: the lines logged, the
\* value returned, or the error raised when row_annotations is None (the
\* loop of line 895 over None).
VcfFieldCheck(t, c, filters) ==
  IF c.row_annotations.none
  THEN [raised |-> "TypeError", log |-> <<>>, result |-> "unset"]
  ELSE
    LET items == VcfItems(c.entry_annotations)
        Annots(item) == IF item = "info" THEN c.row_annotations.list
                        ELSE IF item = "format" THEN c.entry_annotations.list
                        ELSE filters
        checked == [k \in 1..Len(items) |->
                      CheckItem(t, c.header_dict, items[k], Annots(items[k]))]
        warnings == Flatten([k \in 1..Len(items) |-> checked[k].warnings])
        missing_fields ==
          Flatten([k \in 1..Len(items) |-> checked[k].missing_fields])
        missing_descriptions ==
          Flatten([k \in 1..Len(items) |-> checked[k].missing_descriptions])
    IN IF Len(missing_fields) # 0 \/ Len(missing_descriptions) # 0
       THEN [raised |-> "",
             log |-> warnings
                       \o <<[op |-> "Missing fields", field |-> missing_fields],
                            [op |-> "Missing descriptions",
                             field |-> missing_descriptions]>>,
             result |-> FALSE]
       ELSE [raised |-> "",
             log |-> Append(warnings, [op |-> "Passed", field |-> <<>>]),
             result |-> TRUE]

InitVcf ==
  /\ ft \in VcfTables
  /\ fcall \in VcfCalls
  /\ flog = <<>>
  /\ fresult = "unset"
  /\ fpc = "ready"
  /\ OthersIdle("vcf")

\* A caller invokes vcf_field_check.
CallVcfFieldCheck ==
  /\ fpc = "ready"
  /\ \E filters \in ListsOf(FiltersInData(ft)) :
       \E r \in {VcfFieldCheck(ft, fcall, filters)} :
         /\ flog' = r.log
         /\ fresult' = r.result
         /\ fpc' = IF r.raised = "" THEN "returned" ELSE r.raised
  /\ UNCHANGED <<ft, fcall>>
  /\ UNCHANGED nonVcfVars

NextVcf == CallVcfFieldCheck

SpecVcf == InitVcf /\ [][NextVcf]_vars

(* ---------------------- properties of vcf_field_check ------------------- *)

\* The fields the call checks, with their items.
CheckedFields ==
  {<<"info", f>> : f \in Range(fcall.row_annotations.list)}
  \cup {<<"filter", f>> : f \in FiltersInData(ft)}
  \cup {<<"format", f>> : f \in Range(fcall.entry_annotations.list)}

\* A checked field without a header entry or with an empty description,
\* the entry field END excepted.
Offending(x) ==
  /\ x # <<"format", "END">>
  /\ HeaderLookup(fcall.header_dict, x[1], x[2]) # "text"

\* C27: for a Table as for a MatrixTable, vcf_field_check with a list of
\* row annotations returns False exactly when a checked field (a listed row
\* annotation, a filter present in the data, a listed entry annotation)
\* has no entry in the header dictionary or an empty description there, the
\* entry field END excepted, and True otherwise; it does not raise.
C27_FalseIffFieldUndescribed ==
  (fpc # "ready" /\ ~fcall.row_annotations.none) =>
    /\ fpc = "returned"
    /\ fresult = ~(\E x \in CheckedFields : Offending(x))


(* ------------------ check_global_and_row_annot_lengths ------------------ *)

\* Largest number of rows of a dataset handed to the length check.
MaxLenRows == 2

\* The dataset: per row the length of each array annotation (NoneInt for a
\* missing array), and the length of each global annotation.
LenTables ==
  [rows : UNION {[1..n -> [freq : {NoneInt, 1, 2}, faf : {1, 2}]] :
                   n \in 0..MaxLenRows},
   globals : [freq_meta : {1, 2}, freq_index_dict : {1, 2}, faf_meta : {1, 2}]]

\* The mappings row_to_globals_check, in insertion order.
RowToGlobalsChecks ==
  {<<Item("freq", <<"freq_meta", "freq_index_dict">>)>>,
   <<Item("freq", <<"freq_meta">>), Item("faf", <<"faf_meta">>)>>}

\* Lines 938-939: t.head(1) unless check_all_rows.
CheckedRowsAll(rows, check_all_rows) == rows
CheckedRows(rows, check_all_rows) ==
  IF check_all_rows THEN rows ELSE SubSeq(rows, 1, IF Len(rows) = 0 THEN 0 ELSE 1)

\* hl.agg.count_where(row_len_expr != global_len): the length of a missing
\* array is missing and the row is not counted.
NFail(rows, row_field, global_len) ==
  Cardinality({r \in 1..Len(rows) :
                 /\ rows[r][row_field] # NoneInt
                 /\ rows[r][row_field] # global_len})

\* hl.agg.counter(row_len_expr): the number of rows per length.
RowLenCounter(rows, row_field) ==
  {<<n, Cardinality({r \in 1..Len(rows) : rows[r][row_field] = n})>> :
     n \in {rows[r][row_field] : r \in 1..Len(rows)}}

\* Lines 948-969: the line logged for one global annotation.
LengthResult(rows, row_field, global_field, global_len) ==
  LET n_fail == NFail(rows, row_field, global_len)
      outcome == IF n_fail > 0 THEN "Failed" ELSE "Passed"
      n_rows == Len(rows)
  IN [op |-> outcome, global_field |-> global_field, global_len |-> global_len,
      row_field |-> row_field,
      n |-> IF outcome = "Failed" THEN n_fail ELSE n_rows,
      n_rows |-> n_rows, row_len |-> RowLenCounter(rows, row_field)]

\* Lines 940-969: the lines logged for one row annotation.
LengthResultsOf(t, rows, check_all_rows, item) ==
  (IF check_all_rows THEN <<>>
   ELSE <<[op |-> "Checking", global_field |-> item.values, global_len |-> 0,
           row_field |-> item.name, n |-> 0, n_rows |-> 0, row_len |-> {}]>>)
  \o [k \in 1..Len(item.values) |->
        LengthResult(rows, item.name, item.values[k], t.globals[item.values[k]])]

\* The whole call.
GlobalAndRowAnnotLengths(t, row_to_globals_check, check_all_rows) ==
  CHOOSE out \in
    {Flatten([k \in 1..Len(row_to_globals_check) |->
                LengthResultsOf(t, rows, check_all_rows, row_to_globals_check[k])]) :
       rows \in {CheckedRows(t.rows, check_all_rows)}} : TRUE

InitLen ==
  /\ lt \in LenTables
  /\ lcall \in [row_to_globals_check : RowToGlobalsChecks,
                check_all_rows : BOOLEAN]
  /\ llog = <<>>
  /\ lpc = "ready"
  /\ OthersIdle("len")

\* A caller invokes check_global_and_row_annot_lengths.
CallCheckGlobalAndRowAnnotLengths ==
  /\ lpc = "ready"
  /\ llog' = GlobalAndRowAnnotLengths(lt, lcall.row_to_globals_check,
                                      lcall.check_all_rows)
  /\ lpc' = "returned"
  /\ UNCHANGED <<lt, lcall>>
  /\ UNCHANGED nonLenVars

NextLen == CallCheckGlobalAndRowAnnotLengths

SpecLen == InitLen /\ [][NextLen]_vars

(* ------------------- properties of the length check --------------------- *)

\* The pairs (row annotation, global annotation) of the mapping, in order.
LengthPairs ==
  Flatten([k \in 1..Len(lcall.row_to_globals_check) |->
             [j \in 1..Len(lcall.row_to_globals_check[k].values) |->
                <<lcall.row_to_globals_check[k].name,
                  lcall.row_to_globals_check[k].values[j]>>]])

\* The result lines of the log, in order.
IsResult(line) == line.op \in {"Failed", "Passed"}
ResultLines == SelectSeq(llog, IsResult)

\* The rows the call checks: all of them, or the first.
RowsChecked ==
  IF lcall.check_all_rows THEN 1..Len(lt.rows)
  ELSE {r \in 1..Len(lt.rows) : r = 1}

\* The checked rows whose array has a length other than the global's.
Mismatching(pair) ==
  {r \in RowsChecked : /\ lt.rows[r][pair[1]] # NoneInt
                       /\ lt.rows[r][pair[1]] # lt.globals[pair[2]]}

\* C28: check_global_and_row_annot_lengths logs exactly one result per
\* (row annotation, global annotation) pair of the mapping, in order;
\* the result is "Failed" exactly when a checked row has an array of a
\* length other than the global's, and then carries the number of such
\* rows; it carries the number of checked rows per length; with
\* check_all_rows false only the first row is checked.
C28_LengthResults ==
  lpc = "returned" =>
    /\ Len(ResultLines) = Len(LengthPairs)
    /\ \A k \in 1..Len(LengthPairs) :
         /\ ResultLines[k].row_field = LengthPairs[k][1]
         /\ ResultLines[k].global_field = LengthPairs[k][2]
         /\ ResultLines[k].op = "Failed" <=> Mismatching(LengthPairs[k]) # {}
         /\ ResultLines[k].op = "Failed" =>
              ResultLines[k].n = Cardinality(Mismatching(LengthPairs[k]))
         /\ \A n \in {NoneInt, 1, 2, 3} :
              LET with_n == {r \in RowsChecked : lt.rows[r][LengthPairs[k][1]] = n}
              IN IF with_n = {}
                 THEN \A c \in ResultLines[k].row_len : c[1] # n
                 ELSE <<n, Cardinality(with_n)>> \in ResultLines[k].row_len

\* C28 witness: check_all_rows is false, the first row's freq has the
\* length of freq_meta and the second row's has not, and the result is
\* "Passed".
C28_Witness ==
  /\ lpc = "returned"
  /\ ~lcall.check_all_rows
  /\ Len(lt.rows) = 2
  /\ lt.rows[1].freq = lt.globals.freq_meta
  /\ lt.rows[2].freq # NoneInt /\ lt.rows[2].freq # lt.globals.freq_meta
  /\ ResultLines[1].op = "Passed"
  /\ ResultLines[1].global_field = "freq_meta"


(* ------------------- properties of compute_missingness ------------------ *)

\* The result lines compute_missingness logged for a metric, and its
\* tallies.
MissingnessLines(x) ==
  {i \in StageEvents(StageIndex("compute_missingness")) :
     vlog[i].ev.desc = x /\ vlog[i].ev.op \in {"FAILED", "Passed"}}
MissingnessTallies ==
  {i \in StageEvents(StageIndex("compute_missingness")) : vlog[i].ev.op = "tally"}

\* C29: called by validate_release_t with n_sites the row count of the
\* dataset, compute_missingness logs exactly one result per metric, FAILED
\* exactly when the number of rows the metric is missing on, divided by
\* n_sites, is strictly greater than the threshold, and then one tally, the
\* number of FAILED metrics; so for every dataset, with or without rows.
C29_MissingnessThreshold ==
  (Executed(StageIndex("compute_missingness")) /\ EveryFieldExists) =>
    /\ Returned(StageIndex("compute_missingness"))
    /\ \A x \in {"p", "q"} :
         /\ Cardinality(MissingnessLines(x)) = 1
         /\ \A i \in MissingnessLines(x) :
              vlog[i].ev.op = "FAILED"
                <=> NMissing(vt.rows, x) * 10
                      > vcall["missingness_threshold"] * Len(vt.rows)
    /\ Cardinality(MissingnessTallies) = 1
    /\ \A i \in MissingnessTallies :
         vlog[i].ev.n
           = Cardinality({x \in {"p", "q"} :
                            \E j \in MissingnessLines(x) : vlog[j].ev.op = "FAILED"})

====
